---- MODULE Spec2Model ----
(***************************************************************************)
(* A model of the Uncoder IO translation core: the query tokenizer         *)
(* (core/tokenizer.py), the CTI chunker (cti_translator.py), the MITRE     *)
(* catalog (core/mitre.py) and the Sigma modifier engine                   *)
(* (platforms/sigma/models/modifiers.py).                                  *)
(*                                                                         *)
(* Strings are sequences of one-character strings, so that the regular     *)
(* expressions and the str methods of the source are computed character by *)
(* character.                                                              *)
(***************************************************************************)
EXTENDS Integers, Sequences, FiniteSets, TLC

VARIABLES
    sys,          \* which component this behaviour exercises
    tok_input,    \* tokenize: the query the call was given
    query,        \* tokenize: the remaining query (the loop variable)
    tokenized,    \* tokenize: the token list built so far
    tok_pc,       \* tokenize: "off" | "loop" | "returned" | "raised"
    tok_exc,      \* tokenize: the exception raised, "none" when none
    tok_result,   \* tokenize: the returned token list (<<>> until it returns)
    wc_value,     \* process_value_wildcard_symbols: the value passed
    wc_operator,  \* process_value_wildcard_symbols: the operator passed
    wc_wildcard,  \* process_value_wildcard_symbols: the wildcard symbol, "" for None
    wc_out,       \* process_value_wildcard_symbols: the pair returned
    wc_pc,        \* process_value_wildcard_symbols: "off" | "call" | "done"
    data,         \* _get_iocs_chunk: the IOC map, its items in insertion order
    mapping,      \* _get_iocs_chunk: generic field -> platform field
    chunks_size,  \* _get_iocs_chunk: the chunk size passed
    result,       \* _get_iocs_chunk: the record list built so far
    cti_pos,      \* _get_iocs_chunk: <<item of data, ioc of its list>> the loops are at
    cti_chunks,   \* _get_iocs_chunk: the chunk list returned
    cti_pc,       \* _get_iocs_chunk: "off" | "collect" | "returned" | "raised"
    tactics,      \* MitreConfig.tactics: key -> entry
    techniques,   \* MitreConfig.techniques: key -> entry
    files,        \* the local dictionary files: which of them json can decode
    upd,          \* per thread, the update_mitre_config call it is in
    n_updates,    \* the update_mitre_config calls made so far
    seen,         \* what the last get_tactic / get_technique pair returned
    mod_modifier, \* ModifierManager.generate: the modifier stack passed
    mod_value,    \* ModifierManager.generate: the value passed
    mod_out,      \* ModifierManager.generate: the exception raised, the tokens returned
    mod_pc,       \* ModifierManager.generate: "off" | "call" | "returned" | "raised"
    mi_args,      \* MetaInfoContainer.__init__: the keyword arguments passed
    mi_self,      \* MetaInfoContainer.__init__: the attributes of the object built
    mi_pc,        \* MetaInfoContainer.__init__: "off" | "call" | "constructed"
    fa_args,      \* get_field_tokens_from_func_args: the argument list passed
    fa_result,    \* get_field_tokens_from_func_args: the list returned
    fa_pc,        \* get_field_tokens_from_func_args: "off" | "call" | "returned"
    project,      \* sync: the GitLab history, commit id -> parent ids and branch
    origin_commit,   \* __get_gitlab_commits: the id of the commit asked for
    saved_commits,   \* __get_gitlab_commits: the ids already synchronised
    parent_ids,      \* __get_gitlab_commits: the list the for loop walks
    parent_commits,  \* __get_gitlab_commits: the ancestors collected
    search_parent,   \* __get_gitlab_commits: the flag of the while loop
    for_index,       \* __get_gitlab_commits: the position of the for loop in parent_ids
    sync_commits,    \* __get_gitlab_commits: the commit list returned
    sync_pc          \* __get_gitlab_commits: "off" | "while" | "for" | "returned"

tok_vars == <<tok_input, query, tokenized, tok_pc, tok_exc, tok_result>>
wc_vars == <<wc_value, wc_operator, wc_wildcard, wc_out, wc_pc>>
cti_vars == <<data, mapping, chunks_size, result, cti_pos, cti_chunks, cti_pc>>
mitre_vars == <<tactics, techniques, files, upd, n_updates, seen>>

mod_vars == <<mod_modifier, mod_value, mod_out, mod_pc>>

mi_vars == <<mi_args, mi_self, mi_pc>>

fa_vars == <<fa_args, fa_result, fa_pc>>

sync_vars ==
    <<project, origin_commit, saved_commits, parent_ids, parent_commits, search_parent,
      for_index, sync_commits, sync_pc>>

vars == <<sys, tok_vars, wc_vars, cti_vars, mitre_vars, mod_vars, mi_vars, fa_vars, sync_vars>>

(***************************************************************************)
(* Bounds of the model.                                                    *)
(***************************************************************************)
MaxFrags == 3

(***************************************************************************)
(* Characters and the str methods the source uses.                         *)
(***************************************************************************)
LowerChars == {"a", "b", "d", "e", "g", "i", "n", "o", "r", "t", "u"}
UpperChars == {"A", "D", "I", "N", "O", "R", "T"}
Letters == LowerChars \cup UpperChars
Digits == {"1", "2"}
WhiteSpace == {" ", "\n"}

\* str.lower on one character
ToLowerChar(c) ==
    CASE c = "A" -> "a"
      [] c = "D" -> "d"
      [] c = "I" -> "i"
      [] c = "N" -> "n"
      [] c = "O" -> "o"
      [] c = "R" -> "r"
      [] c = "T" -> "t"
      [] OTHER -> c

\* str.lower
Lower(s) == [i \in 1..Len(s) |-> ToLowerChar(s[i])]

\* s[n:]
Drop(s, n) == SubSeq(s, n + 1, Len(s))

\* str.startswith
StartsWith(s, p) == Len(s) >= Len(p) /\ SubSeq(s, 1, Len(p)) = p

\* str.endswith
EndsWith(s, p) == Len(s) >= Len(p) /\ SubSeq(s, Len(s) - Len(p) + 1, Len(s)) = p

\* a literal matched under re.IGNORECASE at the head of s
StartsWithI(s, p) == Len(s) >= Len(p) /\ Lower(SubSeq(s, 1, Len(p))) = Lower(p)

\* the length of the longest prefix of s made of characters of S: a greedy
\* character class [S]* matched at the head of s
RECURSIVE RunLen(_, _)
RunLen(s, S) ==
    IF s = <<>> \/ Head(s) \notin S THEN 0 ELSE 1 + RunLen(Tail(s), S)

\* the length of the longest suffix of s made of characters of S
RECURSIVE RunLenBack(_, _)
RunLenBack(s, S) ==
    IF s = <<>> \/ s[Len(s)] \notin S THEN 0
    ELSE 1 + RunLenBack(SubSeq(s, 1, Len(s) - 1), S)

\* str.strip(chars): every leading and trailing character of S removed
StripChars(s, S) ==
    LET l == RunLen(s, S) IN
    IF l = Len(s) THEN <<>>
    ELSE SubSeq(s, l + 1, Len(s) - RunLenBack(s, S))

\* str.split(sep) for a one-character separator: never empty
RECURSIVE SplitAt(_, _, _)
SplitAt(s, sep, cur) ==
    IF s = <<>> THEN <<cur>>
    ELSE IF Head(s) = sep THEN <<cur>> \o SplitAt(Tail(s), sep, <<>>)
    ELSE SplitAt(Tail(s), sep, Append(cur, Head(s)))

Split(s, sep) == SplitAt(s, sep, <<>>)


(***************************************************************************)
(* Token model (core/models: Identifier, FieldValue, Keyword).  Every      *)
(* token is a record of one shape; a value is the pair (is_list, items),   *)
(* a scalar being the one item of a value that is not a list.              *)
(***************************************************************************)
L_PAREN == "("
R_PAREN == ")"
LogicalOperatorTypes == {"and", "or", "not"}
OperatorTypes ==
    {"EQ", "NEQ", "GT", "GTE", "LT", "LTE", "CONTAINS", "STARTSWITH",
     "ENDSWITH", "REGEX", "IN", "KEYWORD"}

ScalarValue(s) == [is_list |-> FALSE, items |-> <<s>>]
ListValue(l) == [is_list |-> TRUE, items |-> l]

Identifier(token_type) ==
    [kind |-> "Identifier", token_type |-> token_type, source_name |-> <<>>,
     is_list |-> FALSE, items |-> <<>>]

\* FieldValue(source_name, operator, value); token_type is the token_type of
\* the operator Identifier
FieldValue(source_name, operator, value) ==
    [kind |-> "FieldValue", token_type |-> operator.token_type,
     source_name |-> source_name, is_list |-> value.is_list,
     items |-> value.items]

Keyword(value) ==
    [kind |-> "Keyword", token_type |-> "KEYWORD", source_name |-> <<>>,
     is_list |-> FALSE, items |-> <<value>>]

(***************************************************************************)
(* The dialect: the class attributes a QueryTokenizer subclass sets.  The  *)
(* subclasses are not part of the sources at hand; this one is the dialect *)
(* of the specification's scenarios (`EventID=1 and (User="a")`,           *)
(* `EventID in (4624, 4625)` giving IN), with `*` as its wildcard.         *)
(***************************************************************************)
\* field_pattern = (?P<field_name>[a-zA-Z]+)
FieldChars == Letters
\* _value_pattern = "?(?P<value>[a-zA-Z0-9*]+)"?
ValueChars == Letters \cup Digits \cup {"*"}
\* multi_value_pattern = \((?P<value>[a-zA-Z0-9*," ]+)\)
MultiValueChars == ValueChars \cup {",", " ", "\""}
\* keyword_pattern = (?P<value>[a-zA-Z0-9*]+)
KeywordChars == ValueChars
\* the keys of single_value_operators_map, in order, and their IR operators
single_value_operators == << <<"=">> >>
\* the keys of multi_value_operators_map, in order
multi_value_operators == << <<"i", "n">> >>
\* operators_map = {**single_value_operators_map, **multi_value_operators_map}
operators_map(key) ==
    CASE key = <<"=">> -> "EQ"
      [] key = <<"i", "n">> -> "IN"
      [] OTHER -> "none"
\* the keys of operators_map, in the order __init_subclass__ joins them
operators_keys == single_value_operators \o multi_value_operators
\* the IR operators of operators_map
operators_map_values == {operators_map(operators_keys[i]) : i \in 1..Len(operators_keys)}
wildcard_symbol == "*"

SeqToSet(s) == {s[i] : i \in 1..Len(s)}

(***************************************************************************)
(* Regular-expression matching, for the patterns the tokenizer builds.     *)
(***************************************************************************)
NoMatch == [ok |-> FALSE, op |-> <<>>, value |-> <<>>, len |-> 0]

\* the first alternative of (?:k1|k2|...) that matches the head of s under
\* re.IGNORECASE, as the text matched; <<>> when none does
RECURSIVE FirstAlt(_, _)
FirstAlt(s, alts) ==
    IF alts = <<>> THEN <<>>
    ELSE IF StartsWithI(s, Head(alts)) THEN SubSeq(s, 1, Len(Head(alts)))
    ELSE FirstAlt(s, Tail(alts))

\* value_pattern (multi = FALSE) or multi_value_pattern (multi = TRUE) at the
\* head of s: the group `value` and the length matched
MatchValue(s, multi) ==
    IF multi
    THEN LET n == RunLen(Drop(s, 1), MultiValueChars) IN
         IF s # <<>> /\ Head(s) = "(" /\ n >= 1 /\ Len(s) >= n + 2 /\ s[n + 2] = ")"
         THEN [ok |-> TRUE, op |-> <<>>, value |-> SubSeq(s, 2, n + 1), len |-> n + 2]
         ELSE NoMatch
    ELSE LET o == IF s # <<>> /\ Head(s) = "\"" THEN 1 ELSE 0
             n == RunLen(Drop(s, o), ValueChars)
             c == IF Len(s) >= o + n + 1 /\ s[o + n + 1] = "\"" THEN 1 ELSE 0
         IN  IF n >= 1
             THEN [ok |-> TRUE, op |-> <<>>, value |-> SubSeq(s, o + 1, o + n),
                   len |-> o + n + c]
             ELSE NoMatch

\* \s{wsMin,} (?:alts) \s{wsMin,} value at the head of s: what follows the
\* field in the patterns of _match_field_value and search_value
MatchAfterField(s, alts, wsMin, multi) ==
    LET w1 == RunLen(s, WhiteSpace)
        s1 == Drop(s, w1)
        op == FirstAlt(s1, alts)
        s2 == Drop(s1, Len(op))
        w2 == RunLen(s2, WhiteSpace)
        mv == MatchValue(Drop(s2, w2), multi)
    IN  IF w1 >= wsMin /\ op # <<>> /\ w2 >= wsMin /\ mv.ok
        THEN [ok |-> TRUE, op |-> op, value |-> mv.value,
              len |-> w1 + Len(op) + w2 + mv.len]
        ELSE NoMatch

\* re.match(logical_operator_pattern, s): \s?(and|or|not|AND|OR|NOT)\s? with no
\* flag; the word matched and the end of the match (0 when there is none)
logical_operator_words ==
    << <<"a", "n", "d">>, <<"o", "r">>, <<"n", "o", "t">>,
       <<"A", "N", "D">>, <<"O", "R">>, <<"N", "O", "T">> >>

RECURSIVE FirstExact(_, _)
FirstExact(s, alts) ==
    IF alts = <<>> THEN <<>>
    ELSE IF StartsWith(s, Head(alts)) THEN Head(alts)
    ELSE FirstExact(s, Tail(alts))

MatchLogicalOperator(s) ==
    LET w1 == IF s # <<>> /\ Head(s) \in WhiteSpace THEN 1 ELSE 0
        word == FirstExact(Drop(s, w1), logical_operator_words)
        after == Drop(s, w1 + Len(word))
        w2 == IF after # <<>> /\ Head(after) \in WhiteSpace THEN 1 ELSE 0
    IN  IF word = <<>> THEN [ok |-> FALSE, word |-> <<>>, end |-> 0]
        ELSE [ok |-> TRUE, word |-> word, end |-> w1 + Len(word) + w2]

\* the token_type of a logical operator: logical_operator.lower() as a string
LogicalTokenType(word) ==
    LET w == Lower(word) IN
    CASE w = <<"a", "n", "d">> -> "and"
      [] w = <<"o", "r">> -> "or"
      [] w = <<"n", "o", "t">> -> "not"
      [] OTHER -> "none"


(***************************************************************************)
(* QueryTokenizer (core/tokenizer.py).  A function that may raise returns  *)
(* a record whose exc names the exception, "none" when it returns.         *)
(***************************************************************************)
\* the TokenizerGeneralException of each raise, with its error text
FieldNotFound == "TokenizerGeneralException: Field couldn't be found in query part"
OperatorNotFound == "TokenizerGeneralException: Operator couldn't be found in query part"
ValueNotFound == "TokenizerGeneralException: Value couldn't be found in query part"
UnsupportedQueryEntry == "TokenizerGeneralException: Unsupported query entry"

\* map_operator: operators_map[operator.lower()], KeyError giving
\* UnsupportedOperatorException
map_operator(operator) ==
    IF Lower(operator) \in SeqToSet(operators_keys)
    THEN [exc |-> "none", operator |-> operators_map(Lower(operator))]
    ELSE [exc |-> "UnsupportedOperatorException", operator |-> "none"]

\* search_field: re.search(field_pattern, query), the leftmost longest run of
\* field characters anywhere in the query
RECURSIVE search_field(_)
search_field(q) ==
    IF q = <<>> THEN [exc |-> FieldNotFound, field_name |-> <<>>]
    ELSE IF Head(q) \in FieldChars
    THEN [exc |-> "none", field_name |-> SubSeq(q, 1, RunLen(q, FieldChars))]
    ELSE search_field(Tail(q))

\* search_operator: re.search of field_name \s* (?P<operator>k1|k2|...) under
\* re.IGNORECASE, leftmost; the operator text, stripped of blanks
RECURSIVE search_operator(_, _)
search_operator(q, field_name) ==
    IF q = <<>> THEN [exc |-> OperatorNotFound, operator |-> <<>>]
    ELSE LET after == Drop(q, Len(field_name))
             op == FirstAlt(Drop(after, RunLen(after, WhiteSpace)), operators_keys)
         IN  IF StartsWithI(q, field_name) /\ op # <<>>
             THEN [exc |-> "none", operator |-> StripChars(op, {" "})]
             ELSE search_operator(Tail(q), field_name)

\* clean_multi_value: blanks stripped, then one pair of matching quotes removed
clean_multi_value(value) ==
    LET v == StripChars(value, {" "}) IN
    IF \/ StartsWith(v, <<"'">>) /\ EndsWith(v, <<"'">>)
       \/ StartsWith(v, <<"\"">>) /\ EndsWith(v, <<"\"">>)
    THEN SubSeq(v, 2, Len(v) - 1)
    ELSE v

\* search_value: re.match of ^field \s* operator \s* value under re.IGNORECASE,
\* the value pattern chosen by the operator's class; the rest of the query, the
\* mapped operator and the value
search_value(q, operator, field_name) ==
    LET is_multi == Lower(operator) \in SeqToSet(multi_value_operators)
        m == IF StartsWithI(q, field_name)
             THEN MatchAfterField(Drop(q, Len(field_name)), <<operator>>, 0, is_multi)
             ELSE NoMatch
        mapped == map_operator(operator)
        vals == Split(m.value, ",")
    IN  IF ~m.ok
        THEN [exc |-> ValueNotFound, query |-> q, operator |-> "none",
              value |-> ScalarValue(<<>>)]
        ELSE IF mapped.exc # "none"
        THEN [exc |-> mapped.exc, query |-> q, operator |-> "none",
              value |-> ScalarValue(<<>>)]
        ELSE [exc |-> "none",
              query |-> Drop(q, Len(field_name) + m.len),
              operator |-> mapped.operator,
              value |-> IF is_multi
                        THEN ListValue([i \in 1..Len(vals) |-> clean_multi_value(vals[i])])
                        ELSE ScalarValue(m.value)]

\* _clean_value with lstrip in place of strip
clean_value_lstrip(value, wildcard) ==
    IF wildcard # "" THEN Drop(value, RunLen(value, {wildcard})) ELSE value

\* _clean_value: value.strip(wildcard_symbol) when a wildcard symbol is set
\* (wildcard_symbol is "" for None)
clean_value(value, wildcard) ==
    IF wildcard # "" THEN StripChars(value, {wildcard}) ELSE value

\* __get_operator_token with the REGEX test missing its `operator ==` part
get_operator_token_regex_any(value, operator, wildcard) ==
    LET starts == StartsWith(value, <<wildcard>>)
        ends == EndsWith(value, <<wildcard>>)
    IN  IF wildcard = "" THEN Identifier(operator)
        ELSE IF ~(starts /\ ends) THEN Identifier("REGEX")
        ELSE Identifier("CONTAINS")

\* __get_operator_token with the ENDSWITH and STARTSWITH branches exchanged
get_operator_token_swapped(value, operator, wildcard) ==
    LET starts == StartsWith(value, <<wildcard>>)
        ends == EndsWith(value, <<wildcard>>)
    IN  IF wildcard = "" THEN Identifier(operator)
        ELSE IF operator = "REGEX" /\ ~(starts /\ ends) THEN Identifier("REGEX")
        ELSE IF starts /\ ends THEN Identifier("CONTAINS")
        ELSE IF starts THEN Identifier("STARTSWITH")
        ELSE IF ends THEN Identifier("ENDSWITH")
        ELSE Identifier(operator)

\* __get_operator_token: the token_type of the Identifier returned
get_operator_token(value, operator, wildcard) ==
    LET starts == StartsWith(value, <<wildcard>>)
        ends == EndsWith(value, <<wildcard>>)
    IN  IF wildcard = "" THEN Identifier(operator)
        ELSE IF operator = "REGEX" /\ ~(starts /\ ends) THEN Identifier("REGEX")
        ELSE IF starts /\ ends THEN Identifier("CONTAINS")
        ELSE IF starts THEN Identifier("ENDSWITH")
        ELSE IF ends THEN Identifier("STARTSWITH")
        ELSE Identifier(operator)

\* process_value_wildcard_symbols: a list takes its operator from its first
\* element and has every element cleaned
process_value_wildcard_symbols(value, operator, wildcard) ==
    IF value.is_list
    THEN [value |-> ListValue([i \in 1..Len(value.items) |->
                                  clean_value(value.items[i], wildcard)]),
          op |-> get_operator_token(value.items[1], operator, wildcard)]
    ELSE [value |-> ScalarValue(clean_value(value.items[1], wildcard)),
          op |-> get_operator_token(value.items[1], operator, wildcard)]

\* search_field_value
search_field_value(q) ==
    LET f == search_field(q)
        o == search_operator(q, f.field_name)
        v == search_value(q, o.operator, f.field_name)
        w == process_value_wildcard_symbols(v.value, v.operator, wildcard_symbol)
    IN  IF f.exc # "none" THEN [exc |-> f.exc, token |-> Identifier("none"), query |-> q]
        ELSE IF o.exc # "none" THEN [exc |-> o.exc, token |-> Identifier("none"), query |-> q]
        ELSE IF v.exc # "none" THEN [exc |-> v.exc, token |-> Identifier("none"), query |-> q]
        ELSE [exc |-> "none", token |-> FieldValue(f.field_name, w.op, w.value),
              query |-> v.query]

\* _match_field_value: the single-value pattern first, then the multi-value
\* pattern with white_space_pattern \s+ around the operator
match_field_value(q) ==
    LET n == RunLen(q, FieldChars) IN
    /\ n >= 1
    /\ \/ MatchAfterField(Drop(q, n), single_value_operators, 0, FALSE).ok
       \/ /\ multi_value_operators # <<>>
          /\ MatchAfterField(Drop(q, n), multi_value_operators, 1, TRUE).ok

\* search_keyword that returns the query it was given
search_keyword_no_advance(q) ==
    [exc |-> "none", token |-> Keyword(SubSeq(q, 1, RunLen(q, KeywordChars))), query |-> q]

\* search_keyword: re.search(keyword_pattern, query), the leftmost run
RECURSIVE search_keyword(_)
search_keyword(q) ==
    IF Head(q) \in KeywordChars
    THEN LET n == RunLen(q, KeywordChars) IN
         [exc |-> "none", token |-> Keyword(SubSeq(q, 1, n)), query |-> Drop(q, n)]
    ELSE search_keyword(Tail(q))

\* _get_identifier trying the keyword before the field-value expression
get_identifier_keyword_first(q0) ==
    LET q == StripChars(StripChars(StripChars(q0, {"\n"}), {" "}), {"\n"})
        lo == MatchLogicalOperator(q)
    IN  IF StartsWith(q, <<L_PAREN>>)
        THEN [exc |-> "none", token |-> Identifier(L_PAREN), query |-> Drop(q, 1)]
        ELSE IF StartsWith(q, <<R_PAREN>>)
        THEN [exc |-> "none", token |-> Identifier(R_PAREN), query |-> Drop(q, 1)]
        ELSE IF lo.ok
        THEN [exc |-> "none", token |-> Identifier(LogicalTokenType(lo.word)),
              query |-> Drop(q, lo.end)]
        ELSE IF q # <<>> /\ Head(q) \in KeywordChars THEN search_keyword(q)
        ELSE IF match_field_value(q) THEN search_field_value(q)
        ELSE [exc |-> UnsupportedQueryEntry, token |-> Identifier("none"),
              query |-> q0]

\* _get_identifier
get_identifier(q0) ==
    LET q == StripChars(StripChars(StripChars(q0, {"\n"}), {" "}), {"\n"})
        lo == MatchLogicalOperator(q)
    IN  IF StartsWith(q, <<L_PAREN>>)
        THEN [exc |-> "none", token |-> Identifier(L_PAREN), query |-> Drop(q, 1)]
        ELSE IF StartsWith(q, <<R_PAREN>>)
        THEN [exc |-> "none", token |-> Identifier(R_PAREN), query |-> Drop(q, 1)]
        ELSE IF lo.ok
        THEN [exc |-> "none", token |-> Identifier(LogicalTokenType(lo.word)),
              query |-> Drop(q, lo.end)]
        ELSE IF match_field_value(q) THEN search_field_value(q)
        ELSE IF q # <<>> /\ Head(q) \in KeywordChars THEN search_keyword(q)
        ELSE [exc |-> UnsupportedQueryEntry, token |-> Identifier("none"),
              query |-> q0]

\* _validate_parentheses: TRUE when it returns, FALSE when it raises
\* QueryParenthesesException; parentheses is the stack of the source
RECURSIVE validate_parentheses_from(_, _)
validate_parentheses_from(tokens, parentheses) ==
    IF tokens = <<>> THEN parentheses = <<>>
    ELSE LET token == Head(tokens) IN
         IF token.kind = "Identifier" /\ token.token_type \in {L_PAREN, R_PAREN}
         THEN IF token.token_type = L_PAREN
              THEN validate_parentheses_from(Tail(tokens), Append(parentheses, token))
              ELSE IF \/ parentheses = <<>>
                      \/ parentheses[Len(parentheses)].token_type = R_PAREN
              THEN FALSE
              ELSE validate_parentheses_from(
                       Tail(tokens), SubSeq(parentheses, 1, Len(parentheses) - 1))
         ELSE validate_parentheses_from(Tail(tokens), parentheses)

\* _validate_parentheses without its closing `if parentheses: raise`
RECURSIVE validate_parentheses_no_final_check_from(_, _)
validate_parentheses_no_final_check_from(tokens, parentheses) ==
    IF tokens = <<>> THEN TRUE
    ELSE LET token == Head(tokens) IN
         IF token.kind = "Identifier" /\ token.token_type \in {L_PAREN, R_PAREN}
         THEN IF token.token_type = L_PAREN
              THEN validate_parentheses_no_final_check_from(
                       Tail(tokens), Append(parentheses, token))
              ELSE IF parentheses = <<>> THEN FALSE
              ELSE validate_parentheses_no_final_check_from(
                       Tail(tokens), SubSeq(parentheses, 1, Len(parentheses) - 1))
         ELSE validate_parentheses_no_final_check_from(Tail(tokens), parentheses)

validate_parentheses_no_final_check(tokens) ==
    validate_parentheses_no_final_check_from(tokens, <<>>)

\* _validate_parentheses comparing only the numbers of L_PAREN and R_PAREN
validate_parentheses_counts_only(tokens) ==
    Cardinality({i \in 1..Len(tokens) :
                    tokens[i].kind = "Identifier" /\ tokens[i].token_type = L_PAREN})
  = Cardinality({i \in 1..Len(tokens) :
                    tokens[i].kind = "Identifier" /\ tokens[i].token_type = R_PAREN})

validate_parentheses(tokens) == validate_parentheses_from(tokens, <<>>)


(***************************************************************************)
(* The queries tokenize is called with: every concatenation of at most     *)
(* MaxFrags fragments, and the inputs of the specification's scenarios.    *)
(***************************************************************************)
Fragments ==
    { <<"(">>,
      <<")">>,
      <<" ", "a", "n", "d", " ">>,
      <<" ", "O", "R", " ">>,
      <<"n", "o", "t", " ">>,
      <<"A", "n", "d", " ">>,
      <<"a", "=", "1">>,
      <<"b", "=", "*", "a">>,
      <<"e", "=", "a", "*">>,
      <<"u", "=", "\"", "*", "b", "*", "\"">>,
      <<"u", " ", "i", "n", " ", "(", "*", "a", ",", " ", "b", ")">>,
      <<"d", " ", "I", "N", " ", "(", "\"", "a", "*", "\"", ")">>,
      <<"a">>,
      <<"=">> }

\* (e=1 and (u="a")   and   e in (1, 2)
ScenarioQueries ==
    { <<"(", "e", "=", "1", " ", "a", "n", "d", " ", "(", "u", "=", "\"", "a", "\"", ")">>,
      <<"e", " ", "i", "n", " ", "(", "1", ",", " ", "2", ")">>,
      <<"(", "(", "a", "=", "1", ")", " ", "o", "r", " ", "(", "b", "=", "2", ")", ")">> }

RECURSIVE Concats(_)
Concats(n) ==
    IF n = 0 THEN {<<>>}
    ELSE LET P == Concats(n - 1) IN P \cup {p \o f : p \in P, f \in Fragments}

\* names that begin with the letters of a logical operator: origin=1, noted
PrefixQueries ==
    { <<"o", "r", "i", "g", "i", "n", "=", "1">>,
      <<"n", "o", "t", "e", "d">> }

Queries == Concats(MaxFrags) \cup ScenarioQueries \cup PrefixQueries

(***************************************************************************)
(* The state of a component the behaviour does not exercise.               *)
(***************************************************************************)
NoValue == [is_list |-> FALSE, items |-> <<>>]
NoOut == [value |-> NoValue, op |-> "none"]

WcOff ==
    /\ wc_value = NoValue
    /\ wc_operator = "none"
    /\ wc_wildcard = ""
    /\ wc_out = NoOut
    /\ wc_pc = "off"

CtiOff ==
    /\ data = <<>>
    /\ mapping = <<>>
    /\ chunks_size = 0
    /\ result = <<>>
    /\ cti_pos = <<0, 0>>
    /\ cti_chunks = <<>>
    /\ cti_pc = "off"

MitreOff ==
    /\ tactics = <<>>
    /\ techniques = <<>>
    /\ files = <<>>
    /\ upd = <<>>
    /\ n_updates = 0
    /\ seen = [valid |-> FALSE]

ModOff ==
    /\ mod_modifier = <<>>
    /\ mod_value = NoValue
    /\ mod_out = [exc |-> "none", tokens |-> <<>>]
    /\ mod_pc = "off"

MiOff ==
    /\ mi_args = <<>>
    /\ mi_self = <<>>
    /\ mi_pc = "off"

FaOff ==
    /\ fa_args = <<>>
    /\ fa_result = <<>>
    /\ fa_pc = "off"

SyncOff ==
    /\ project = <<>>
    /\ origin_commit = 0
    /\ saved_commits = {}
    /\ parent_ids = <<>>
    /\ parent_commits = <<>>
    /\ search_parent = FALSE
    /\ for_index = 0
    /\ sync_commits = <<>>
    /\ sync_pc = "off"

(***************************************************************************)
(* tokenize, one loop iteration a step.                                    *)
(***************************************************************************)
TokFrame == UNCHANGED <<sys, wc_vars, cti_vars, mitre_vars, mod_vars, mi_vars, fa_vars, sync_vars>>

TokOff ==
    /\ tok_input = <<>>
    /\ query = <<>>
    /\ tokenized = <<>>
    /\ tok_pc = "off"
    /\ tok_exc = "none"
    /\ tok_result = <<>>

InitTokenizer ==
    /\ sys = "tokenizer"
    /\ tok_input \in Queries
    /\ query = tok_input
    /\ tokenized = <<>>
    /\ tok_pc = "loop"
    /\ tok_exc = "none"
    /\ tok_result = <<>>
    /\ WcOff
    /\ CtiOff
    /\ MitreOff
    /\ ModOff
    /\ MiOff
    /\ FaOff
    /\ SyncOff

\* while query: identifier, query = self._get_identifier(query=query);
\* tokenized.append(identifier)
TokenizeStep ==
    /\ sys = "tokenizer"
    /\ tok_pc = "loop"
    /\ query # <<>>
    /\ LET r == get_identifier(query) IN
       IF r.exc # "none"
       THEN /\ tok_pc' = "raised"
            /\ tok_exc' = r.exc
            /\ UNCHANGED <<query, tokenized>>
       ELSE /\ query' = r.query
            /\ tokenized' = Append(tokenized, r.token)
            /\ UNCHANGED <<tok_pc, tok_exc>>
    /\ UNCHANGED <<tok_input, tok_result>>
    /\ TokFrame

\* self._validate_parentheses(tokenized); return tokenized
TokenizeReturn ==
    /\ sys = "tokenizer"
    /\ tok_pc = "loop"
    /\ query = <<>>
    /\ IF validate_parentheses(tokenized)
       THEN /\ tok_pc' = "returned"
            /\ tok_result' = tokenized
            /\ UNCHANGED tok_exc
       ELSE /\ tok_pc' = "raised"
            /\ tok_exc' = "QueryParenthesesException"
            /\ UNCHANGED tok_result
    /\ UNCHANGED <<tok_input, query, tokenized>>
    /\ TokFrame

NextTokenizer == TokenizeStep \/ TokenizeReturn

SpecTokenizer == InitTokenizer /\ [][NextTokenizer]_vars


(***************************************************************************)
(* Claims about tokenize, checked under SpecTokenizer.                     *)
(***************************************************************************)
IsParen(token, token_type) ==
    token.kind = "Identifier" /\ token.token_type = token_type

CountParen(tokens, token_type) ==
    Cardinality({i \in 1..Len(tokens) : IsParen(tokens[i], token_type)})

\* no prefix holds more R_PAREN than L_PAREN
PrefixesOpenFirst(tokens) ==
    \A n \in 0..Len(tokens) :
        CountParen(SubSeq(tokens, 1, n), R_PAREN) <= CountParen(SubSeq(tokens, 1, n), L_PAREN)

Balanced(tokens) ==
    /\ CountParen(tokens, L_PAREN) = CountParen(tokens, R_PAREN)
    /\ PrefixesOpenFirst(tokens)

\* C1: in every token list tokenize returns, the number of L_PAREN
\* Identifiers equals the number of R_PAREN Identifiers and no prefix of the
\* list holds more R_PAREN than L_PAREN.
C1_ParenthesesBalance ==
    tok_pc = "returned" =>
        /\ CountParen(tok_result, L_PAREN) = CountParen(tok_result, R_PAREN)
        /\ PrefixesOpenFirst(tok_result)

\* a returned token list with nested parentheses
C1_Witness ==
    /\ tok_pc = "returned"
    /\ CountParen(tok_result, L_PAREN) >= 2
    /\ \E i \in 1..Len(tok_result) - 1 :
          IsParen(tok_result[i], L_PAREN) /\ IsParen(tok_result[i + 1], L_PAREN)

\* C2: when the loop has consumed the whole query and the token stream has an
\* R_PAREN with no earlier unmatched L_PAREN, or an L_PAREN never closed,
\* tokenize raises QueryParenthesesException and returns no token list.
C2_UnbalancedRaises ==
    (tok_pc # "loop" /\ query = <<>> /\ ~Balanced(tokenized)) =>
        /\ tok_pc = "raised"
        /\ tok_exc = "QueryParenthesesException"
        /\ tok_result = <<>>

\* the specification's input (e=1 and (u="a") has raised QueryParentheses, its
\* first L_PAREN never closed
C2_Witness ==
    /\ tok_input = <<"(", "e", "=", "1", " ", "a", "n", "d", " ", "(",
                     "u", "=", "\"", "a", "\"", ")">>
    /\ tok_pc = "raised"
    /\ tok_exc = "QueryParenthesesException"
    /\ CountParen(tokenized, L_PAREN) > CountParen(tokenized, R_PAREN)

WildcardOperators == {"CONTAINS", "ENDSWITH", "STARTSWITH"}

FieldValuesOf(tokens) == {i \in 1..Len(tokens) : tokens[i].kind = "FieldValue"}

\* C9 as claimed: the operator of every FieldValue the tokenizer emits is one
\* of the IR operators of the dialect's operators_map.
C9_OperatorClosure ==
    \A i \in FieldValuesOf(tokenized) : tokenized[i].token_type \in operators_map_values

\* C9 as amended: the operator of every FieldValue the tokenizer emits is one
\* of the IR operators of the dialect's operators_map or, the dialect having a
\* wildcard symbol, one of CONTAINS, ENDSWITH, STARTSWITH.
C9_OperatorClosureAmended ==
    \A i \in FieldValuesOf(tokenized) :
        \/ tokenized[i].token_type \in operators_map_values
        \/ wildcard_symbol # "" /\ tokenized[i].token_type \in WildcardOperators

\* a returned token list holding a FieldValue under a mapped operator and one
\* under a wildcard operator
C9_Witness ==
    /\ tok_pc = "returned"
    /\ \E i, j \in FieldValuesOf(tok_result) :
          /\ tok_result[i].token_type \in operators_map_values
          /\ tok_result[j].token_type \in WildcardOperators


(***************************************************************************)
(* process_value_wildcard_symbols called on its own, with every value,     *)
(* operator and wildcard symbol of the bounds.                             *)
(***************************************************************************)
MaxValueLen == 3
MaxListLen == 2

WildcardAlphabet == {"a", "b", "*"}

RECURSIVE StringsUpTo(_, _)
StringsUpTo(A, n) ==
    IF n = 0 THEN {<<>>}
    ELSE LET P == StringsUpTo(A, n - 1) IN P \cup {Append(p, c) : p \in P, c \in A}

WildcardStrings == StringsUpTo(WildcardAlphabet, MaxValueLen)
\* the elements of a list value: shorter strings over one letter and the wildcard
WildcardElements == StringsUpTo({"a", "*"}, MaxValueLen - 1)

WildcardValues ==
    {ScalarValue(v) : v \in WildcardStrings}
    \cup UNION {{ListValue(l) : l \in [1..n -> WildcardElements]} : n \in 1..MaxListLen}

WcFrame == UNCHANGED <<sys, tok_vars, cti_vars, mitre_vars, mod_vars, mi_vars, fa_vars, sync_vars>>

InitWildcard ==
    /\ sys = "wildcard"
    /\ wc_value \in WildcardValues
    /\ wc_operator \in OperatorTypes
    /\ wc_wildcard \in {"*", ""}
    /\ wc_out = NoOut
    /\ wc_pc = "call"
    /\ TokOff
    /\ CtiOff
    /\ MitreOff
    /\ ModOff
    /\ MiOff
    /\ FaOff
    /\ SyncOff

ProcessValueWildcardSymbols ==
    /\ sys = "wildcard"
    /\ wc_pc = "call"
    /\ LET r == process_value_wildcard_symbols(wc_value, wc_operator, wc_wildcard) IN
       wc_out' = [value |-> r.value, op |-> r.op.token_type]
    /\ wc_pc' = "done"
    /\ UNCHANGED <<wc_value, wc_operator, wc_wildcard>>
    /\ WcFrame

NextWildcard == ProcessValueWildcardSymbols

SpecWildcard == InitWildcard /\ [][NextWildcard]_vars

HasNoWildcard(s) == \A i \in 1..Len(s) : s[i] # "*"

\* the call is process_value_wildcard_symbols(v, operator, "*") on a scalar v
WildcardCallOn(v) ==
    /\ wc_pc = "done"
    /\ wc_wildcard = "*"
    /\ wc_value = ScalarValue(v)

\* C8 as claimed: for every string s with no wildcard symbol and every source
\* operator, process_value_wildcard_symbols with wildcard symbol * returns
\* (s, CONTAINS) for *s*, (s, ENDSWITH) for *s and (s, STARTSWITH) for s*.
C8_WildcardNormalization ==
    \A s \in WildcardStrings :
        HasNoWildcard(s) =>
            /\ WildcardCallOn(<<"*">> \o s \o <<"*">>) =>
                   wc_out = [value |-> ScalarValue(s), op |-> "CONTAINS"]
            /\ WildcardCallOn(<<"*">> \o s) =>
                   wc_out = [value |-> ScalarValue(s), op |-> "ENDSWITH"]
            /\ WildcardCallOn(s \o <<"*">>) =>
                   wc_out = [value |-> ScalarValue(s), op |-> "STARTSWITH"]

\* C8 as amended: for every nonempty string s with no wildcard symbol,
\* process_value_wildcard_symbols with wildcard symbol * returns (s, CONTAINS)
\* for *s* under every source operator, and for *s and s* it returns
\* (s, ENDSWITH) and (s, STARTSWITH) under every source operator but REGEX,
\* under which it returns (s, REGEX).
C8_WildcardNormalizationAmended ==
    \A s \in WildcardStrings :
        (HasNoWildcard(s) /\ s # <<>>) =>
            /\ WildcardCallOn(<<"*">> \o s \o <<"*">>) =>
                   wc_out = [value |-> ScalarValue(s), op |-> "CONTAINS"]
            /\ WildcardCallOn(<<"*">> \o s) =>
                   wc_out = [value |-> ScalarValue(s),
                             op |-> IF wc_operator = "REGEX" THEN "REGEX" ELSE "ENDSWITH"]
            /\ WildcardCallOn(s \o <<"*">>) =>
                   wc_out = [value |-> ScalarValue(s),
                             op |-> IF wc_operator = "REGEX" THEN "REGEX" ELSE "STARTSWITH"]

\* the call on *ab under EQ has returned (ab, ENDSWITH)
C8_Witness ==
    /\ WildcardCallOn(<<"*", "a", "b">>)
    /\ wc_operator = "EQ"
    /\ wc_out = [value |-> ScalarValue(<<"a", "b">>), op |-> "ENDSWITH"]


(***************************************************************************)
(* CTIConverter._get_iocs_chunk (cti_translator.py).  data is the dict as  *)
(* the sequence of its items; mapping is a function on the generic fields  *)
(* it has keys for.                                                        *)
(***************************************************************************)
MaxIocs == 2
MaxChunkSize == 3

GenericFields == {"ip", "domain"}
\* platform field names; the empty string is one a mapping can hold
PlatformFields == {"", "dst"}
IocValues == {"x", "y"}

IocsChunkValue(generic_field, platform_field, value) ==
    [generic_field |-> generic_field, platform_field |-> platform_field, value |-> value]

\* the lists of at most n elements of S
RECURSIVE ListsUpTo(_, _)
ListsUpTo(S, n) ==
    IF n = 0 THEN {<<>>}
    ELSE LET P == ListsUpTo(S, n - 1) IN P \cup {Append(p, x) : p \in P, x \in S}

\* the dicts over GenericFields, as item sequences with no key twice
DataMaps ==
    {d \in ListsUpTo(GenericFields \X ListsUpTo(IocValues, MaxIocs), Cardinality(GenericFields)) :
        \A i, j \in 1..Len(d) : i # j => d[i][1] # d[j][1]}

Mappings == UNION {[K -> PlatformFields] : K \in SUBSET GenericFields}

\* the test of the loop as `generic_field in mapping`
MappingGet_membership(m, generic_field) ==
    IF generic_field \in DOMAIN m THEN "in" ELSE ""

\* mapping.get(generic_field), "" standing for the None of a missing key too
MappingGet(m, generic_field) ==
    IF generic_field \in DOMAIN m THEN m[generic_field] ELSE ""

\* len(range(0, n, k)) for k > 0
NumChunks(n, k) == (n + k - 1) \div k

\* the list comprehension of _get_iocs_chunk with the slice one record short
chunks_of_short_slice(records, k) ==
    IF k = 0 THEN [exc |-> "ValueError", chunks |-> <<>>]
    ELSE IF k < 0 THEN [exc |-> "none", chunks |-> <<>>]
    ELSE [exc |-> "none",
          chunks |-> [c \in 1..NumChunks(Len(records), k) |->
                         SubSeq(records, (c - 1) * k + 1,
                                IF c * k - 1 <= Len(records) THEN c * k - 1 ELSE Len(records))]]

\* [result[i : i + chunks_size] for i in range(0, len(result), chunks_size)]:
\* range raises ValueError for a step of 0 and is empty for a negative step
chunks_of(records, k) ==
    IF k = 0 THEN [exc |-> "ValueError", chunks |-> <<>>]
    ELSE IF k < 0 THEN [exc |-> "none", chunks |-> <<>>]
    ELSE [exc |-> "none",
          chunks |-> [c \in 1..NumChunks(Len(records), k) |->
                         SubSeq(records, (c - 1) * k + 1,
                                IF c * k <= Len(records) THEN c * k ELSE Len(records))]]

CtiFrame == UNCHANGED <<sys, tok_vars, wc_vars, mitre_vars, mod_vars, mi_vars, fa_vars, sync_vars>>

InitCti ==
    /\ sys = "cti"
    /\ data \in DataMaps
    /\ mapping \in Mappings
    /\ chunks_size \in -1..MaxChunkSize
    /\ result = <<>>
    /\ cti_pos = <<1, 1>>
    /\ cti_chunks = <<>>
    /\ cti_pc = "collect"
    /\ TokOff
    /\ WcOff
    /\ MitreOff
    /\ ModOff
    /\ MiOff
    /\ FaOff
    /\ SyncOff

\* for ioc in iocs_list: if mapping.get(generic_field): result.append(...)
CollectIoc ==
    /\ sys = "cti"
    /\ cti_pc = "collect"
    /\ cti_pos[1] <= Len(data)
    /\ cti_pos[2] <= Len(data[cti_pos[1]][2])
    /\ LET generic_field == data[cti_pos[1]][1]
           ioc == data[cti_pos[1]][2][cti_pos[2]]
       IN  result' = IF MappingGet(mapping, generic_field) # ""
                     THEN Append(result, IocsChunkValue(generic_field,
                                                        mapping[generic_field], ioc))
                     ELSE result
    /\ cti_pos' = <<cti_pos[1], cti_pos[2] + 1>>
    /\ UNCHANGED <<data, mapping, chunks_size, cti_chunks, cti_pc>>
    /\ CtiFrame

\* for generic_field, iocs_list in data.items(): the next item
NextDataItem ==
    /\ sys = "cti"
    /\ cti_pc = "collect"
    /\ cti_pos[1] <= Len(data)
    /\ cti_pos[2] > Len(data[cti_pos[1]][2])
    /\ cti_pos' = <<cti_pos[1] + 1, 1>>
    /\ UNCHANGED <<data, mapping, chunks_size, result, cti_chunks, cti_pc>>
    /\ CtiFrame

\* return [result[i : i + chunks_size] for i in range(0, len(result), chunks_size)]
ReturnChunks ==
    /\ sys = "cti"
    /\ cti_pc = "collect"
    /\ cti_pos[1] > Len(data)
    /\ LET r == chunks_of(result, chunks_size) IN
       /\ cti_pc' = IF r.exc = "none" THEN "returned" ELSE "raised"
       /\ cti_chunks' = r.chunks
    /\ UNCHANGED <<data, mapping, chunks_size, result, cti_pos>>
    /\ CtiFrame

NextCti == CollectIoc \/ NextDataItem \/ ReturnChunks

SpecCti == InitCti /\ [][NextCti]_vars

RECURSIVE Flatten(_)
Flatten(ls) == IF ls = <<>> THEN <<>> ELSE Head(ls) \o Flatten(Tail(ls))

\* C3 as claimed: for every chunk size passed, the chunks _get_iocs_chunk
\* returns, concatenated in order, are the full list of mapped records, and
\* every chunk has at most chunks_size records.
C3_ChunkingLaw ==
    cti_pc = "returned" =>
        /\ Flatten(cti_chunks) = result
        /\ \A c \in 1..Len(cti_chunks) : Len(cti_chunks[c]) <= chunks_size

\* C3 as amended: for every chunk size of at least 1, the chunks
\* _get_iocs_chunk returns, concatenated in order, are the full list of mapped
\* records, and every chunk has at most chunks_size records.
C3_ChunkingLawAmended ==
    (cti_pc = "returned" /\ chunks_size >= 1) =>
        /\ Flatten(cti_chunks) = result
        /\ \A c \in 1..Len(cti_chunks) : Len(cti_chunks[c]) <= chunks_size

\* three records returned in chunks of two: a full chunk and a shorter last one
C3_Witness ==
    /\ cti_pc = "returned"
    /\ chunks_size = 2
    /\ Len(result) = 3
    /\ Len(cti_chunks) = 2
    /\ Len(cti_chunks[2]) = 1


(***************************************************************************)
(* MitreConfig (core/mitre.py).  A dict is a function on its keys; a       *)
(* missing entry, the {} that get_tactic and get_technique return, is      *)
(* NoEntry.                                                                *)
(***************************************************************************)
MaxObjects == 2
MaxUpdates == 2

mitre_source_types == {"mitre-attack"}

EmptyDict == <<>>

\* d[k] = v
Put(d, k, v) == [x \in DOMAIN d \cup {k} |-> IF x = k THEN v ELSE d[x]]

\* str.replace for one-character strings
Replace(str, old, new) == [i \in 1..Len(str) |-> IF str[i] = old THEN new ELSE str[i]]

NoEntry == [kind |-> "none"]

TacticEntry(external_id, url, name) ==
    [kind |-> "tactic", external_id |-> external_id, url |-> url, tactic |-> name]

TechniqueEntry(technique_id, name, url, tactic_list) ==
    [kind |-> "technique", technique_id |-> technique_id, technique |-> name,
     url |-> url, tactic |-> tactic_list]

\* the objects a bundle is made of
Ref(source_name, external_id) ==
    [source_name |-> source_name, external_id |-> external_id, url |-> "url"]

Phase(kill_chain_name, phase_name) ==
    [kill_chain_name |-> kill_chain_name, phase_name |-> phase_name]

TacticObject(name, shortname, external_id, revoked, deprecated) ==
    [type |-> "x-mitre-tactic", name |-> name, x_mitre_shortname |-> shortname,
     revoked |-> revoked, x_mitre_deprecated |-> deprecated,
     x_mitre_is_subtechnique |-> FALSE,
     external_references |-> <<Ref("mitre-attack", external_id)>>,
     kill_chain_phases |-> <<>>]

AttackPattern(name, external_id, is_sub, phases, revoked, deprecated) ==
    [type |-> "attack-pattern", name |-> name, x_mitre_shortname |-> <<>>,
     revoked |-> revoked, x_mitre_deprecated |-> deprecated,
     x_mitre_is_subtechnique |-> is_sub,
     external_references |-> <<Ref("capec", <<"C">>), Ref("mitre-attack", external_id)>>,
     kill_chain_phases |-> phases]

\* tactic `D A` (d-a, TA1), tactic `IO` (io, TA2); technique T1 `R` in d-a,
\* technique T2 `N` in io; sub-technique T1.1 `O`
NameDA == <<"D", " ", "A">>
ShortDA == <<"d", "-", "a">>
NameIO == <<"I", "O">>
ShortIO == <<"i", "o">>
IdT1 == <<"T", "1">>
IdT2 == <<"T", "2">>
IdT11 == <<"T", "1", ".", "1">>

MitreObjects ==
    { TacticObject(NameDA, ShortDA, <<"T", "A", "1">>, FALSE, FALSE),
      TacticObject(NameDA, ShortDA, <<"T", "A", "1">>, TRUE, FALSE),
      TacticObject(NameIO, ShortIO, <<"T", "A", "2">>, FALSE, FALSE),
      TacticObject(NameIO, ShortIO, <<"T", "A", "2">>, FALSE, TRUE),
      AttackPattern(<<"R">>, IdT1, FALSE, <<Phase("mitre-attack", ShortDA)>>, FALSE, FALSE),
      AttackPattern(<<"R">>, IdT1, FALSE, <<Phase("mitre-attack", ShortDA)>>, TRUE, FALSE),
      AttackPattern(<<"N">>, IdT2, FALSE,
                    <<Phase("other", ShortDA), Phase("mitre-attack", ShortIO)>>, FALSE, FALSE),
      AttackPattern(<<"O">>, IdT11, TRUE, <<Phase("mitre-attack", ShortDA)>>, FALSE, FALSE),
      AttackPattern(<<"O">>, IdT11, TRUE, <<Phase("mitre-attack", ShortDA)>>, FALSE, TRUE) }

\* a later release of the catalog: technique T1 `R` has moved to tactic `IO`
MovedBundle ==
    << TacticObject(NameIO, ShortIO, <<"T", "A", "2">>, FALSE, FALSE),
       AttackPattern(<<"R">>, IdT1, FALSE, <<Phase("mitre-attack", ShortIO)>>, FALSE, FALSE) >>

\* mitre_json["objects"]: at most MaxObjects objects, the bundle that has a
\* tactic, a technique in it and a sub-technique of that technique, and the
\* later release
Bundles ==
    ListsUpTo(MitreObjects, MaxObjects)
    \cup { << AttackPattern(<<"O">>, IdT11, TRUE, <<Phase("mitre-attack", ShortDA)>>, FALSE, FALSE),
              AttackPattern(<<"R">>, IdT1, FALSE, <<Phase("mitre-attack", ShortDA)>>, FALSE, FALSE),
              TacticObject(NameDA, ShortDA, <<"T", "A", "1">>, FALSE, FALSE) >>,
            MovedBundle }

\* the dictionary files app/dictionaries/tactics.json and techniques.json
LocalTactics ==
    Put(EmptyDict, <<"d", "_", "a">>, TacticEntry(<<"T", "A", "1">>, "url", NameDA))

LocalTechniques ==
    Put(Put(EmptyDict, <<"t", "1">>, TechniqueEntry(IdT1, <<"R">>, "url", <<NameDA>>)),
        <<"t", "1", ".", "1">>,
        TechniqueEntry(IdT11, <<"R", " ", ":", " ", "O">>, "url", <<NameDA>>))

\* __revoked_or_deprecated
revoked_or_deprecated(entry) == entry.revoked \/ entry.x_mitre_deprecated

\* the first ref of external_references whose source_name is among types:
\* the `for ref ... break` of the three passes; 0 when there is none
RECURSIVE FirstRefFrom(_, _, _)
FirstRefFrom(refs, types, i) ==
    IF i > Len(refs) THEN 0
    ELSE IF refs[i].source_name \in types THEN i
    ELSE FirstRefFrom(refs, types, i + 1)

FirstRef(entry, types) == FirstRefFrom(entry.external_references, types, 1)

\* the key of a tactic: entry["name"].replace(" ", "_").lower()
TacticKey(name) == Lower(Replace(name, " ", "_"))

\* "Map the tactics": the first loop over mitre_json["objects"]
RECURSIVE map_tactics(_, _, _)
map_tactics(objects, tactic_map, tacs) ==
    IF objects = <<>> THEN [exc |-> "none", tactic_map |-> tactic_map, tactics |-> tacs]
    ELSE LET entry == Head(objects)
             r == FirstRef(entry, {"mitre-attack"})
         IN  IF entry.type # "x-mitre-tactic" \/ revoked_or_deprecated(entry) \/ r = 0
             THEN map_tactics(Tail(objects), tactic_map, tacs)
             ELSE map_tactics(
                      Tail(objects),
                      Put(tactic_map, entry.x_mitre_shortname, entry.name),
                      Put(tacs, TacticKey(entry.name),
                          TacticEntry(entry.external_references[r].external_id,
                                      entry.external_references[r].url, entry.name)))

\* the kill-chain loop of a technique: the tactic names of its mitre phases,
\* KeyError when tactic_map has no such phase_name
RECURSIVE sub_tactics_of(_, _)
sub_tactics_of(phases, tactic_map) ==
    IF phases = <<>> THEN [exc |-> "none", tactic |-> <<>>]
    ELSE LET rest == sub_tactics_of(Tail(phases), tactic_map)
             tactic == Head(phases)
         IN  IF tactic.kill_chain_name \notin mitre_source_types THEN rest
             ELSE IF tactic.phase_name \notin DOMAIN tactic_map
             THEN [exc |-> "KeyError", tactic |-> <<>>]
             ELSE IF rest.exc # "none" THEN rest
             ELSE [exc |-> "none",
                   tactic |-> <<tactic_map[tactic.phase_name]>> \o rest.tactic]

\* "Map the techniques": the second loop
RECURSIVE map_techniques(_, _, _, _)
map_techniques(objects, tactic_map, technique_map, techs) ==
    IF objects = <<>>
    THEN [exc |-> "none", technique_map |-> technique_map, techniques |-> techs]
    ELSE LET entry == Head(objects)
             r == FirstRef(entry, mitre_source_types)
             ref == entry.external_references[r]
             st == sub_tactics_of(entry.kill_chain_phases, tactic_map)
         IN  IF \/ entry.type # "attack-pattern"
                \/ revoked_or_deprecated(entry)
                \/ entry.x_mitre_is_subtechnique
                \/ r = 0
             THEN map_techniques(Tail(objects), tactic_map, technique_map, techs)
             ELSE IF st.exc # "none"
             THEN [exc |-> st.exc,
                   technique_map |-> Put(technique_map, ref.external_id, entry.name),
                   techniques |-> techs]
             ELSE map_techniques(
                      Tail(objects), tactic_map,
                      Put(technique_map, ref.external_id, entry.name),
                      Put(techs, Lower(ref.external_id),
                          TechniqueEntry(ref.external_id, entry.name, ref.url, st.tactic)))

\* "Map the sub-techniques": the third loop
RECURSIVE map_sub_techniques(_, _, _)
map_sub_techniques(objects, technique_map, techs) ==
    IF objects = <<>> THEN [exc |-> "none", techniques |-> techs]
    ELSE LET entry == Head(objects)
             r == FirstRef(entry, mitre_source_types)
             ref == entry.external_references[r]
             parent_id == Split(ref.external_id, ".")[1]
             parent_tactics == IF Lower(parent_id) \in DOMAIN techs
                               THEN techs[Lower(parent_id)].tactic
                               ELSE <<>>
         IN  IF \/ entry.type # "attack-pattern"
                \/ revoked_or_deprecated(entry)
                \/ ~entry.x_mitre_is_subtechnique
                \/ r = 0
             THEN map_sub_techniques(Tail(objects), technique_map, techs)
             ELSE IF parent_id \notin DOMAIN technique_map
             THEN [exc |-> "KeyError", techniques |-> techs]
             ELSE map_sub_techniques(
                      Tail(objects), technique_map,
                      Put(techs, Lower(ref.external_id),
                          TechniqueEntry(ref.external_id,
                                         technique_map[parent_id] \o <<" ", ":", " ">>
                                             \o entry.name,
                                         ref.url, parent_tactics)))

\* __load_mitre_configs_from_files, one file: its dict, {} on JSONDecodeError
load_file(decodes, content) == IF decodes THEN content ELSE EmptyDict

\* get_tactic that turns a display name into its key before the lookup
get_tactic_by_display_name(tactic) ==
    LET key == TacticKey(Replace(tactic, ".", "_")) IN
    IF key \in DOMAIN tactics THEN tactics[key] ELSE NoEntry

\* get_tactic: self.tactics.get(tactic.replace(".", "_"), {})
get_tactic(tactic) ==
    LET key == Replace(tactic, ".", "_") IN
    IF key \in DOMAIN tactics THEN tactics[key] ELSE NoEntry

\* get_technique: self.techniques.get(technique_id, {})
get_technique(technique_id) ==
    IF technique_id \in DOMAIN techniques THEN techniques[technique_id] ELSE NoEntry


(***************************************************************************)
(* The catalog as a process: MitreConfig is a singleton, so every thread   *)
(* calls update_mitre_config, get_tactic and get_technique on the same two *)
(* tables.  A call of update_mitre_config is a thread's record in upd; the *)
(* three loops and the two file loads are a step each.                     *)
(***************************************************************************)
Threads == {1, 2}

\* how urlopen and json.loads of __get_mitre_json can end
FetchOutcomes == {"ok", "HTTPError", "URLError", "JSONDecodeError"}

InFlightPcs ==
    {"map_tactics", "map_techniques", "map_sub_techniques",
     "load_tactics_file", "load_techniques_file"}

InFlight(t) == upd[t].pc \in InFlightPcs

\* the tables a call of update_mitre_config that began on (tacs, techs) ends
\* with when no other thread writes meanwhile
RunUpdate(fetch, bundle, tacs, techs) ==
    IF fetch = "HTTPError"
    THEN [tactics |-> load_file(files.tactics, LocalTactics),
          techniques |-> load_file(files.techniques, LocalTechniques)]
    ELSE IF fetch # "ok" THEN [tactics |-> tacs, techniques |-> techs]
    ELSE LET r1 == map_tactics(bundle, EmptyDict, tacs)
             r2 == map_techniques(bundle, r1.tactic_map, EmptyDict, techs)
             r3 == map_sub_techniques(bundle, r2.technique_map, r2.techniques)
         IN  [tactics |-> r1.tactics,
              techniques |-> IF r2.exc = "none" THEN r3.techniques ELSE r2.techniques]

NoCall ==
    [pc |-> "idle", fetch |-> "none", mitre_json |-> <<>>,
     tactic_map |-> EmptyDict, technique_map |-> EmptyDict, exc |-> "none",
     pre |-> [tactics |-> EmptyDict, techniques |-> EmptyDict],
     post |-> [tactics |-> EmptyDict, techniques |-> EmptyDict]]

NotSeen == [valid |-> FALSE]

MitreFrame == UNCHANGED <<sys, tok_vars, wc_vars, cti_vars, mod_vars, mi_vars, fa_vars, sync_vars>>

\* MitreConfig(server): both tables empty, then the files unless server
InitMitre ==
    /\ sys = "mitre"
    /\ files \in [tactics : BOOLEAN, techniques : BOOLEAN]
    /\ \E server \in BOOLEAN :
         /\ tactics = IF server THEN EmptyDict ELSE load_file(files.tactics, LocalTactics)
         /\ techniques = IF server THEN EmptyDict
                         ELSE load_file(files.techniques, LocalTechniques)
    /\ upd = [t \in Threads |-> NoCall]
    /\ n_updates = 0
    /\ seen = NotSeen
    /\ TokOff
    /\ WcOff
    /\ CtiOff
    /\ ModOff
    /\ MiOff
    /\ FaOff
    /\ SyncOff

\* update_mitre_config up to the first loop: __get_mitre_json returns the
\* bundle, returns {} on HTTPError, and lets every other exception through
GetMitreJson(t, bundles) ==
    /\ sys = "mitre"
    /\ ~InFlight(t)
    /\ n_updates < MaxUpdates
    /\ n_updates' = n_updates + 1
    /\ \E outcome \in FetchOutcomes, bundle \in bundles \cup {<<>>} :
         /\ outcome # "ok" => bundle = <<>>
         /\ upd' = [upd EXCEPT ![t] =
                [pc |-> CASE outcome = "ok" -> "map_tactics"
                          [] outcome = "HTTPError" -> "load_tactics_file"
                          [] OTHER -> "raised",
                 fetch |-> outcome,
                 mitre_json |-> bundle,
                 tactic_map |-> EmptyDict,
                 technique_map |-> EmptyDict,
                 exc |-> IF outcome \in {"ok", "HTTPError"} THEN "none" ELSE outcome,
                 pre |-> [tactics |-> tactics, techniques |-> techniques],
                 post |-> RunUpdate(outcome, bundle, tactics, techniques)]]
    /\ UNCHANGED <<tactics, techniques, files, seen>>
    /\ MitreFrame

\* __load_mitre_configs_from_files: self.tactics = json.load(file)
LoadTacticsFile(t) ==
    /\ sys = "mitre"
    /\ upd[t].pc = "load_tactics_file"
    /\ tactics' = load_file(files.tactics, LocalTactics)
    /\ upd' = [upd EXCEPT ![t].pc = "load_techniques_file"]
    /\ UNCHANGED <<techniques, files, n_updates, seen>>
    /\ MitreFrame

\* __load_mitre_configs_from_files: self.techniques = json.load(file); return
LoadTechniquesFile(t) ==
    /\ sys = "mitre"
    /\ upd[t].pc = "load_techniques_file"
    /\ techniques' = load_file(files.techniques, LocalTechniques)
    /\ upd' = [upd EXCEPT ![t].pc = "returned"]
    /\ UNCHANGED <<tactics, files, n_updates, seen>>
    /\ MitreFrame

\* the first loop of update_mitre_config
MapTactics(t) ==
    /\ sys = "mitre"
    /\ upd[t].pc = "map_tactics"
    /\ LET r == map_tactics(upd[t].mitre_json, upd[t].tactic_map, tactics) IN
       /\ tactics' = r.tactics
       /\ upd' = [upd EXCEPT ![t].pc = "map_techniques", ![t].tactic_map = r.tactic_map]
    /\ UNCHANGED <<techniques, files, n_updates, seen>>
    /\ MitreFrame

\* the second loop of update_mitre_config
MapTechniques(t) ==
    /\ sys = "mitre"
    /\ upd[t].pc = "map_techniques"
    /\ LET r == map_techniques(upd[t].mitre_json, upd[t].tactic_map,
                               upd[t].technique_map, techniques) IN
       /\ techniques' = r.techniques
       /\ upd' = [upd EXCEPT ![t].pc = IF r.exc = "none" THEN "map_sub_techniques"
                                       ELSE "raised",
                             ![t].exc = r.exc,
                             ![t].technique_map = r.technique_map]
    /\ UNCHANGED <<tactics, files, n_updates, seen>>
    /\ MitreFrame

\* the third loop of update_mitre_config, and the return
MapSubTechniques(t) ==
    /\ sys = "mitre"
    /\ upd[t].pc = "map_sub_techniques"
    /\ LET r == map_sub_techniques(upd[t].mitre_json, upd[t].technique_map, techniques) IN
       /\ techniques' = r.techniques
       /\ upd' = [upd EXCEPT ![t].pc = IF r.exc = "none" THEN "returned" ELSE "raised",
                             ![t].exc = r.exc]
    /\ UNCHANGED <<tactics, files, n_updates, seen>>
    /\ MitreFrame

\* the names a reader asks for: keys, display names, ids as MITRE writes them
TacticArgs == {<<"d", "_", "a">>, NameDA}
TechniqueArgs == {<<"t", "1", ".", "1">>, IdT11}

Get(d, k) == IF k \in DOMAIN d THEN d[k] ELSE NoEntry

\* a reader calls get_tactic and get_technique.  Beside what they return, seen
\* keeps what they would have returned on the tables before and after the
\* update in flight, when there is exactly one.
Lookup(tactic_args, technique_args) ==
    /\ sys = "mitre"
    /\ LET flying == {t \in Threads : InFlight(t)}
           u == upd[CHOOSE t \in Threads : flying = {} \/ t \in flying]
       IN  \E tactic \in tactic_args, technique_id \in technique_args :
             seen' = [valid |-> TRUE,
                      during |-> Cardinality(flying),
                      calls |-> n_updates,
                      tactic_arg |-> tactic,
                      technique_arg |-> technique_id,
                      tactic |-> get_tactic(tactic),
                      technique |-> get_technique(technique_id),
                      pre |-> <<Get(u.pre.tactics, Replace(tactic, ".", "_")),
                                Get(u.pre.techniques, technique_id)>>,
                      post |-> <<Get(u.post.tactics, Replace(tactic, ".", "_")),
                                 Get(u.post.techniques, technique_id)>>]
    /\ UNCHANGED <<tactics, techniques, files, upd, n_updates>>
    /\ MitreFrame

\* one thread: calls of update_mitre_config one after another, lookups between
UpdateStep(t, bundles) ==
    \/ GetMitreJson(t, bundles)
    \/ LoadTacticsFile(t)
    \/ LoadTechniquesFile(t)
    \/ MapTactics(t)
    \/ MapTechniques(t)
    \/ MapSubTechniques(t)

LookupBetweenCalls == (\A t \in Threads : ~InFlight(t)) /\ Lookup(TacticArgs, TechniqueArgs)

NextMitre == UpdateStep(1, Bundles) \/ LookupBetweenCalls

SpecMitre == InitMitre /\ [][NextMitre]_vars

\* the bundles the threads fetch: one with a new tactic and a technique in it,
\* one that revokes a technique, one with a sub-technique before its parent
ThreadBundles ==
    { << TacticObject(NameIO, ShortIO, <<"T", "A", "2">>, FALSE, FALSE),
         AttackPattern(<<"N">>, IdT2, FALSE,
                       <<Phase("other", ShortDA), Phase("mitre-attack", ShortIO)>>,
                       FALSE, FALSE) >>,
      << AttackPattern(<<"R">>, IdT1, FALSE, <<Phase("mitre-attack", ShortDA)>>, TRUE, FALSE) >>,
      << AttackPattern(<<"O">>, IdT11, TRUE, <<Phase("mitre-attack", ShortDA)>>, FALSE, FALSE),
         AttackPattern(<<"R">>, IdT1, FALSE, <<Phase("mitre-attack", ShortDA)>>, FALSE, FALSE),
         TacticObject(NameDA, ShortDA, <<"T", "A", "1">>, FALSE, FALSE) >> }

\* the threads of the process: nothing in MitreConfig makes one wait for another
NextMitreThreads ==
    \/ \E t \in Threads : UpdateStep(t, ThreadBundles)
    \/ Lookup({<<"i", "o">>}, {<<"t", "2">>, <<"t", "1", ".", "1">>})

SpecMitreThreads == InitMitre /\ [][NextMitreThreads]_vars


\* one thread and a reader, on the bundles of the threads and the later release
LookupBundles == ThreadBundles \cup {MovedBundle}

NextMitreLookup == UpdateStep(1, LookupBundles) \/ LookupBetweenCalls

SpecMitreLookup == InitMitre /\ [][NextMitreLookup]_vars

\* the keys the bundle marks revoked or deprecated and gives no live entry for
LiveObjects(bundle, type) ==
    {i \in 1..Len(bundle) : /\ bundle[i].type = type
                            /\ ~revoked_or_deprecated(bundle[i])
                            /\ FirstRef(bundle[i], mitre_source_types) # 0}

MarkedObjects(bundle, type) ==
    {i \in 1..Len(bundle) : /\ bundle[i].type = type
                            /\ revoked_or_deprecated(bundle[i])
                            /\ FirstRef(bundle[i], mitre_source_types) # 0}

TechniqueKeyOf(entry) ==
    Lower(entry.external_references[FirstRef(entry, mitre_source_types)].external_id)

MarkedTacticKeys(bundle) ==
    {TacticKey(bundle[i].name) : i \in MarkedObjects(bundle, "x-mitre-tactic")}
    \ {TacticKey(bundle[i].name) : i \in LiveObjects(bundle, "x-mitre-tactic")}

MarkedTechniqueKeys(bundle) ==
    {TechniqueKeyOf(bundle[i]) : i \in MarkedObjects(bundle, "attack-pattern")}
    \ {TechniqueKeyOf(bundle[i]) : i \in LiveObjects(bundle, "attack-pattern")}

\* C4: after construction and any calls of update_mitre_config, once the call
\* that fetched the latest bundle has returned, no key of tactics or of
\* techniques is the key of an entry that bundle marks revoked or deprecated.
C4_Monotonicity ==
    (upd[1].pc = "returned" /\ upd[1].fetch = "ok") =>
        /\ DOMAIN tactics \cap MarkedTacticKeys(upd[1].mitre_json) = {}
        /\ DOMAIN techniques \cap MarkedTechniqueKeys(upd[1].mitre_json) = {}

\* C7: whenever the fetch of the bundle fails, update_mitre_config raises
\* nothing and ends with both tables equal to what the local files hold, an
\* undecodable file giving the empty table.
C7_FetchFailureFallsBack ==
    (~InFlight(1) /\ upd[1].fetch \in FetchOutcomes \ {"ok"}) =>
        /\ upd[1].pc = "returned"
        /\ tactics = load_file(files.tactics, LocalTactics)
        /\ techniques = load_file(files.techniques, LocalTechniques)

\* C5: a get_tactic / get_technique pair made while one update_mitre_config
\* runs returns what it would on the tables from before that update or what it
\* would on the tables the update ends with.
C5_ReadersSeeSnapshot ==
    (seen.valid /\ seen.during = 1 /\ seen.calls = 1) =>
        <<seen.tactic, seen.technique>> \in {seen.pre, seen.post}

\* C6: at most one call of update_mitre_config is in flight at any time.
C6_RefreshesSerialized ==
    Cardinality({t \in Threads : InFlight(t)}) <= 1


(***************************************************************************)
(* ModifierManager (platforms/sigma/models/modifiers.py).  A modifier is   *)
(* its name; a value is a string or a list of strings.                     *)
(***************************************************************************)
MaxModifiers == 3
MaxValues == 2

MULTY_MODIFIER_LEN == 2

ModifierNames == {"contains", "re", "all", "windash"}
FieldName == <<"f">>
ModifierStrings == {<<"-", "a", "-">>, <<"/", "a", "/">>, <<"a">>}

ModifierStacks == ListsUpTo(ModifierNames, MaxModifiers)

ModifierValues ==
    {ScalarValue(v) : v \in ModifierStrings}
    \cup {ListValue(l) : l \in ListsUpTo(ModifierStrings, MaxValues)}

and_token == Identifier("and")
or_token == Identifier("or")

\* modifier_map.get(modifier, modifier), modifier_map being {"re": REGEX}
map_modifier(modifier) == Identifier(IF modifier = "re" THEN "REGEX" ELSE modifier)

\* __validate_modifiers accepting a stack of any length
validate_modifiers_any_length(modifiers) == "none"

\* __validate_modifiers: the bare raise of a stack longer than
\* _MULTY_MODIFIER_LEN has no exception to re-raise, which is a RuntimeError
validate_modifiers(modifiers) ==
    IF Len(modifiers) > MULTY_MODIFIER_LEN THEN "RuntimeError" ELSE "none"

\* str.replace(old, new, 1)
RECURSIVE ReplaceFirst(_, _, _)
ReplaceFirst(str, old, new) ==
    IF str = <<>> THEN <<>>
    ELSE IF Head(str) = old THEN <<new>> \o Tail(str)
    ELSE <<Head(str)>> \o ReplaceFirst(Tail(str), old, new)

\* the loops of modifier_all and modifier_windash: every value's tokens, each
\* followed by the joining token
RECURSIVE tokens_with(_, _)
tokens_with(groups, join_token) ==
    IF groups = <<>> THEN <<>>
    ELSE Head(groups) \o <<join_token>> \o tokens_with(Tail(groups), join_token)

\* [Identifier(L_PAREN), *tokens[:-1], Identifier(R_PAREN)]
in_parentheses(tokens) ==
    <<Identifier(L_PAREN)>> \o SubSeq(tokens, 1, Len(tokens) - 1) \o <<Identifier(R_PAREN)>>

\* modifier_all joining the values with or_token
modifier_all_or_joined(field_name, modifier, values) ==
    IF ~values.is_list \/ Len(values.items) = 1
    THEN <<FieldValue(field_name, map_modifier(modifier), values)>>
    ELSE in_parentheses(tokens_with(
             [i \in 1..Len(values.items) |->
                 <<FieldValue(field_name, map_modifier(modifier),
                              ScalarValue(values.items[i]))>>],
             or_token))

\* modifier_all
modifier_all(field_name, modifier, values) ==
    IF ~values.is_list \/ Len(values.items) = 1
    THEN <<FieldValue(field_name, map_modifier(modifier), values)>>
    ELSE in_parentheses(tokens_with(
             [i \in 1..Len(values.items) |->
                 <<FieldValue(field_name, map_modifier(modifier),
                              ScalarValue(values.items[i]))>>],
             and_token))

\* the windash pair with the two values the other way round
prepare_windash_value_reversed(value) ==
    IF StartsWith(value, <<"/">>)
    THEN ListValue(<<ReplaceFirst(value, "/", "-"), value>>)
    ELSE IF StartsWith(value, <<"-">>)
    THEN ListValue(<<ReplaceFirst(value, "-", "/"), value>>)
    ELSE ScalarValue(value)

\* __prepare_windash_value
prepare_windash_value(value) ==
    IF StartsWith(value, <<"/">>)
    THEN ListValue(<<value, ReplaceFirst(value, "/", "-")>>)
    ELSE IF StartsWith(value, <<"-">>)
    THEN ListValue(<<value, ReplaceFirst(value, "-", "/")>>)
    ELSE ScalarValue(value)

\* modifier_windash
modifier_windash(field_name, modifier, values) ==
    IF values.is_list
    THEN in_parentheses(tokens_with(
             [i \in 1..Len(values.items) |->
                 <<FieldValue(field_name, map_modifier(modifier),
                              prepare_windash_value(values.items[i]))>>],
             or_token))
    ELSE <<FieldValue(field_name, map_modifier(modifier),
                      prepare_windash_value(values.items[1]))>>

\* apply_multi_modifier
apply_multi_modifier(field_name, modifier, values) ==
    IF modifier[Len(modifier)] = "all"
    THEN [exc |-> "none", tokens |-> modifier_all(field_name, modifier[1], values)]
    ELSE IF modifier[Len(modifier)] = "windash"
    THEN [exc |-> "none", tokens |-> modifier_windash(field_name, modifier[1], values)]
    ELSE [exc |-> "NotImplementedError", tokens |-> <<>>]

\* apply_modifier with windash kept as the operator name
apply_modifier_windash_operator(field_name, modifier, values) ==
    IF modifier = <<>> THEN [exc |-> "IndexError", tokens |-> <<>>]
    ELSE IF modifier[1] = "windash"
    THEN [exc |-> "none", tokens |-> modifier_windash(field_name, "windash", values)]
    ELSE [exc |-> "none",
          tokens |-> <<FieldValue(field_name, map_modifier(modifier[1]), values)>>]

\* apply_modifier; modifier[0] of an empty stack is an IndexError
apply_modifier(field_name, modifier, values) ==
    IF modifier = <<>> THEN [exc |-> "IndexError", tokens |-> <<>>]
    ELSE IF modifier[1] = "windash"
    THEN [exc |-> "none", tokens |-> modifier_windash(field_name, "EQ", values)]
    ELSE [exc |-> "none",
          tokens |-> <<FieldValue(field_name, map_modifier(modifier[1]), values)>>]

\* create_token
create_token(field_name, modifier, value) ==
    IF Len(modifier) = MULTY_MODIFIER_LEN
    THEN apply_multi_modifier(field_name, modifier, value)
    ELSE apply_modifier(field_name, modifier, value)

\* generate
generate(field_name, modifier, value) ==
    IF validate_modifiers(modifier) # "none"
    THEN [exc |-> validate_modifiers(modifier), tokens |-> <<>>]
    ELSE create_token(field_name, modifier, value)

ModFrame == UNCHANGED <<sys, tok_vars, wc_vars, cti_vars, mitre_vars, mi_vars, fa_vars, sync_vars>>

InitModifier ==
    /\ sys = "modifier"
    /\ mod_modifier \in ModifierStacks
    /\ mod_value \in ModifierValues
    /\ mod_out = [exc |-> "none", tokens |-> <<>>]
    /\ mod_pc = "call"
    /\ TokOff
    /\ WcOff
    /\ CtiOff
    /\ MitreOff
    /\ MiOff
    /\ FaOff
    /\ SyncOff

\* ModifierManager().generate(field_name, modifier, value)
Generate ==
    /\ sys = "modifier"
    /\ mod_pc = "call"
    /\ mod_out' = generate(FieldName, mod_modifier, mod_value)
    /\ mod_pc' = IF mod_out'.exc = "none" THEN "returned" ELSE "raised"
    /\ UNCHANGED <<mod_modifier, mod_value>>
    /\ ModFrame

NextModifier == Generate

SpecModifier == InitModifier /\ [][NextModifier]_vars

\* the two producers of FieldValue tokens side by side
InitFieldValue == InitTokenizer \/ InitModifier

NextFieldValue == TokenizeStep \/ TokenizeReturn \/ Generate

SpecFieldValue == InitFieldValue /\ [][NextFieldValue]_vars


\* the strings of a value: the string itself, or the elements of the list
StringsOf(value) == {value.items[i] : i \in 1..Len(value.items)}

OtherDash(c) == IF c = "-" THEN "/" ELSE "-"

\* [v, v with its leading dash swapped] for one of the strings passed
IsWindashPair(token) ==
    /\ Len(token.items) = 2
    /\ token.items[1] \in StringsOf(mod_value)
    /\ token.items[1] # <<>>
    /\ Head(token.items[1]) \in {"-", "/"}
    /\ token.items[2] = <<OtherDash(Head(token.items[1]))>> \o Tail(token.items[1])

\* C10 as claimed: a FieldValue the tokenizer or ModifierManager.generate
\* produces has a list value if and only if its operator is IN.
C10_ListIffIn ==
    /\ \A i \in FieldValuesOf(tokenized) :
           tokenized[i].is_list <=> tokenized[i].token_type = "IN"
    /\ \A i \in FieldValuesOf(mod_out.tokens) :
           mod_out.tokens[i].is_list <=> mod_out.tokens[i].token_type = "IN"

\* C10 as amended: a FieldValue of the tokenizer has a list value under IN and
\* a scalar under every operator but IN, CONTAINS, STARTSWITH and ENDSWITH, a
\* list being found under those three too; a FieldValue of
\* ModifierManager.generate has a list value only when it is the list passed or
\* the windash pair of a string passed, and otherwise holds a string passed.
C10_ListShapes ==
    /\ \A i \in FieldValuesOf(tokenized) :
           /\ tokenized[i].token_type = "IN" => tokenized[i].is_list
           /\ tokenized[i].is_list =>
                  tokenized[i].token_type \in {"IN"} \cup WildcardOperators
    /\ \A i \in FieldValuesOf(mod_out.tokens) :
           LET token == mod_out.tokens[i] IN
           IF token.is_list
           THEN \/ mod_value.is_list /\ token.items = mod_value.items
                \/ "windash" \in SeqToSet(mod_modifier) /\ IsWindashPair(token)
           ELSE token.items[1] \in StringsOf(mod_value)

\* the single modifier windash on a string that begins with a dash: one
\* FieldValue under EQ that holds a list
C10_Witness ==
    /\ mod_pc = "returned"
    /\ mod_modifier = <<"windash">>
    /\ ~mod_value.is_list
    /\ \E i \in FieldValuesOf(mod_out.tokens) :
           /\ mod_out.tokens[i].is_list
           /\ mod_out.tokens[i].token_type = "EQ"

(***************************************************************************)
(* Claims about ModifierManager.generate, checked under SpecModifier.      *)
(***************************************************************************)
StartsWithDash(v) == v # <<>> /\ Head(v) \in {"-", "/"}

SwapDash(v) == <<OtherDash(Head(v))>> \o Tail(v)

\* generate has returned for the single modifier windash on a string that
\* begins with - or /
WindashCall ==
    /\ mod_pc = "returned"
    /\ mod_modifier = <<"windash">>
    /\ ~mod_value.is_list
    /\ StartsWithDash(mod_value.items[1])

\* C11 as claimed: for the single modifier windash and a string v that begins
\* with - or /, generate returns L_PAREN, FieldValue(field, EQ, v), or,
\* FieldValue(field, EQ, v with its leading character swapped), R_PAREN.
C11_WindashDisjunction ==
    WindashCall =>
        LET v == mod_value.items[1] IN
        mod_out.tokens =
            << Identifier(L_PAREN),
               FieldValue(FieldName, Identifier("EQ"), ScalarValue(v)),
               Identifier("or"),
               FieldValue(FieldName, Identifier("EQ"), ScalarValue(SwapDash(v))),
               Identifier(R_PAREN) >>

\* C11 as amended: for the single modifier windash and a string v that begins
\* with - or /, generate returns one token and no parenthesis: the FieldValue
\* on the field under EQ whose value is the list [v, v with its leading
\* character swapped].
C11_WindashListValue ==
    WindashCall =>
        LET v == mod_value.items[1] IN
        mod_out.tokens =
            << [kind |-> "FieldValue", token_type |-> "EQ", source_name |-> FieldName,
                is_list |-> TRUE, items |-> <<v, SwapDash(v)>>] >>

\* windash on -a- has returned the one FieldValue with [-a-, /a-]
C11_Witness ==
    /\ WindashCall
    /\ mod_value.items[1] = <<"-", "a", "-">>
    /\ Len(mod_out.tokens) = 1
    /\ mod_out.tokens[1].items = << <<"-", "a", "-">>, <<"/", "a", "-">> >>

\* generate has returned for a stack m|all on a list of values
AllCall ==
    /\ mod_pc = "returned"
    /\ Len(mod_modifier) = 2
    /\ mod_modifier[2] = "all"
    /\ mod_value.is_list

\* the IR operator of a modifier: REGEX for re, else the modifier's name
OperatorOf(m) == IF m = "re" THEN "REGEX" ELSE m

\* L_PAREN, the FieldValue of every value in order under the operator of m
\* with one `and` between neighbours, R_PAREN
AndGroup(m, values) ==
    LET n == Len(values) IN
    [k \in 1..(IF n = 0 THEN 2 ELSE 2 * n + 1) |->
        IF k = 1 THEN Identifier(L_PAREN)
        ELSE IF k = (IF n = 0 THEN 2 ELSE 2 * n + 1) THEN Identifier(R_PAREN)
        ELSE IF k % 2 = 1 THEN Identifier("and")
        ELSE [kind |-> "FieldValue", token_type |-> OperatorOf(m),
              source_name |-> FieldName, is_list |-> FALSE,
              items |-> <<values[k \div 2]>>]]

\* C12 as claimed: for m|all and every list v1..vn, generate returns L_PAREN,
\* one FieldValue(field, operator of m, vi) per value in input order, each
\* carrying the scalar vi, with a single `and` between neighbours, R_PAREN.
C12_AllGroup ==
    AllCall => mod_out.tokens = AndGroup(mod_modifier[1], mod_value.items)

\* C12 as amended: for m|all and a list of two or more values generate returns
\* that group; for a list of one value it returns, with no parentheses, the one
\* FieldValue whose value is the list passed; for the empty list it returns
\* L_PAREN, R_PAREN.
C12_AllGroupFromTwo ==
    AllCall =>
        mod_out.tokens =
            IF Len(mod_value.items) = 1
            THEN << [kind |-> "FieldValue", token_type |-> OperatorOf(mod_modifier[1]),
                     source_name |-> FieldName, is_list |-> TRUE,
                     items |-> mod_value.items] >>
            ELSE AndGroup(mod_modifier[1], mod_value.items)

\* contains|all on [-a-, a] has returned the group of five tokens
C12_Witness ==
    /\ AllCall
    /\ mod_modifier[1] = "contains"
    /\ mod_value.items = << <<"-", "a", "-">>, <<"a">> >>
    /\ Len(mod_out.tokens) = 5
    /\ mod_out.tokens[3] = Identifier("and")

\* C13: for every modifier stack of more than two modifiers generate raises
\* and returns no tokens.
C13_LongStackRejected ==
    (mod_pc # "call" /\ Len(mod_modifier) > MULTY_MODIFIER_LEN) =>
        /\ mod_pc = "raised"
        /\ mod_out.exc # "none"
        /\ mod_out.tokens = <<>>

\* contains|all|windash on a list has been rejected
C13_Witness ==
    /\ mod_pc = "raised"
    /\ mod_modifier = <<"contains", "all", "windash">>
    /\ mod_value.is_list
    /\ mod_out.exc = "RuntimeError"

(***************************************************************************)
(* Claims about the classification of the head of the query, checked       *)
(* under SpecTokenizer.                                                    *)
(***************************************************************************)
\* query.strip("\n").strip(" ").strip("\n")
Stripped(q) == StripChars(StripChars(StripChars(q, {"\n"}), {" "}), {"\n"})

\* the token the step has appended
Appended(kind) ==
    /\ tok_pc' = "loop"
    /\ Len(tokenized') = Len(tokenized) + 1
    /\ SubSeq(tokenized', 1, Len(tokenized)) = tokenized
    /\ tokenized'[Len(tokenized')].kind = kind

AppendedIdentifier(types) ==
    /\ Appended("Identifier")
    /\ tokenized'[Len(tokenized')].token_type \in types

\* the step has raised out of the field-value search
RaisedInSearch ==
    /\ tok_pc' = "raised"
    /\ tok_exc' \in {FieldNotFound, OperatorNotFound, ValueNotFound,
                     "UnsupportedOperatorException"}

\* C14: every step of the tokenizer loop classifies the head of the stripped
\* query as the first that applies of parenthesis, logical operator,
\* field-value expression, keyword, and appends that token; when none applies
\* tokenize raises TokenizerGeneralException("Unsupported query entry"); and a
\* tokenize that has raised has returned no token list.
C14_ClassificationOrder ==
    [][ /\ (tok_pc = "loop" /\ query # <<>>) =>
              LET q == Stripped(query) IN
              IF q # <<>> /\ Head(q) = L_PAREN THEN AppendedIdentifier({L_PAREN})
              ELSE IF q # <<>> /\ Head(q) = R_PAREN THEN AppendedIdentifier({R_PAREN})
              ELSE IF MatchLogicalOperator(q).ok
              THEN AppendedIdentifier(LogicalOperatorTypes)
              ELSE IF match_field_value(q) THEN Appended("FieldValue") \/ RaisedInSearch
              ELSE IF q # <<>> /\ Head(q) \in KeywordChars THEN Appended("Keyword")
              ELSE /\ tok_pc' = "raised"
                   /\ tok_exc' = UnsupportedQueryEntry
                   /\ tokenized' = tokenized
        /\ tok_pc' = "raised" => tok_result' = <<>>
      ]_vars

\* tokenize has raised on a lone `=` after tokens were appended
C14_Witness ==
    /\ tok_pc = "raised"
    /\ tok_exc = UnsupportedQueryEntry
    /\ tokenized # <<>>
    /\ tok_result = <<>>
    /\ Stripped(query) = <<"=">>


(***************************************************************************)
(* C15: the casings of a logical operator at the head of the query.        *)
(***************************************************************************)
\* the three operator names, lowercase
LogicalOperatorNames == {<<"a", "n", "d">>, <<"o", "r">>, <<"n", "o", "t">>}

\* C15: whatever the casing of and / or / not at the head of the query, the
\* loop step appends an Identifier of the lowercase operator name.
C15_AnyCasing ==
    [][ \A w \in LogicalOperatorNames :
          (tok_pc = "loop" /\ query # <<>> /\ StartsWithI(Stripped(query), w))
              => AppendedIdentifier({LogicalTokenType(w)})
      ]_vars


(***************************************************************************)
(* C16: the sub-technique entries of the techniques table.                 *)
(***************************************************************************)
\* the key of a sub-technique: a technique id with a `.`
IsSubTechniqueKey(k) == \E i \in 1..Len(k) : k[i] = "."

\* sub_technique_id.split(".")[0].lower() on a key, which is lowercase already
ParentKey(k) == Split(k, ".")[1]

\* the names the sub-technique objects have
SubTechniqueNames ==
    {o.name : o \in {m \in MitreObjects : m.type = "attack-pattern"
                                           /\ m.x_mitre_is_subtechnique}}

\* C16: once update_mitre_config has returned from a fetched bundle, every
\* sub-technique entry of techniques has the tactic list of its parent's entry
\* and the name `<parent name> : <sub name>`.
C16_SubTechniqueFollowsParent ==
    (upd[1].pc = "returned" /\ upd[1].fetch = "ok") =>
        \A k \in DOMAIN techniques :
            IsSubTechniqueKey(k) =>
                /\ ParentKey(k) \in DOMAIN techniques
                /\ techniques[k].tactic = techniques[ParentKey(k)].tactic
                /\ \E n \in SubTechniqueNames :
                       techniques[k].technique
                           = techniques[ParentKey(k)].technique \o <<" ", ":", " ">> \o n


(***************************************************************************)
(* C17: get_tactic and get_technique on the names of stored entries.       *)
(***************************************************************************)
\* the step is a reader's get_tactic / get_technique pair
Looked == seen' # seen

\* C17 as stated: get_tactic called with the key or with the display name of
\* a stored tactic returns that tactic's entry, and get_technique called with
\* the dotted id a technique is stored under returns that technique's entry.
C17_LookupByDisplayName ==
    [][ Looked =>
          /\ \A k \in DOMAIN tactics :
                 seen'.tactic_arg \in {k, tactics[k].tactic} => seen'.tactic = tactics[k]
          /\ \A k \in DOMAIN techniques :
                 seen'.technique_arg = k => seen'.technique = techniques[k]
      ]_vars

\* C17: get_tactic called with the lowercase snake-case key of a stored tactic
\* returns that tactic's entry, and called with a display name that is not
\* its own key returns the empty entry; get_technique called with the
\* lowercase id a technique is stored under returns that technique's entry,
\* and called with the id in the catalog's own casing, when that differs,
\* returns the empty entry.
C17_LookupByKey ==
    [][ Looked =>
          /\ \A k \in DOMAIN tactics :
                 /\ seen'.tactic_arg = k => seen'.tactic = tactics[k]
                 /\ (seen'.tactic_arg = tactics[k].tactic /\ tactics[k].tactic # k)
                        => seen'.tactic = NoEntry
          /\ \A k \in DOMAIN techniques :
                 /\ seen'.technique_arg = k => seen'.technique = techniques[k]
                 /\ (seen'.technique_arg = techniques[k].technique_id
                         /\ techniques[k].technique_id # k)
                        => seen'.technique = NoEntry
      ]_vars

\* after a fetched bundle stored tactic `D A` and sub-technique T1.1, a reader
\* asked for `D A` and for `t1.1`: nothing for the first, the entry for the second
C17_Witness ==
    /\ upd[1].pc = "returned"
    /\ upd[1].fetch = "ok"
    /\ \E i \in 1..Len(upd[1].mitre_json) : upd[1].mitre_json[i].name = NameDA
    /\ seen.valid
    /\ seen.calls = n_updates
    /\ TacticKey(NameDA) \in DOMAIN tactics
    /\ seen.tactic_arg = NameDA
    /\ seen.tactic = NoEntry
    /\ seen.technique_arg = <<"t", "1", ".", "1">>
    /\ seen.technique_arg \in DOMAIN techniques
    /\ seen.technique = techniques[seen.technique_arg]


(***************************************************************************)
(* C18: the record stream of _get_iocs_chunk.                              *)
(***************************************************************************)
\* one record per value of a data item, in the item's value order
RecordsOf(item, m) ==
    [j \in 1..Len(item[2]) |-> IocsChunkValue(item[1], m[item[1]], item[2][j])]

\* the records of the items whose generic field is among fields, in item order
RecordStream(d, m, fields) ==
    Flatten([i \in 1..Len(d) |-> IF d[i][1] \in fields THEN RecordsOf(d[i], m) ELSE <<>>])

\* the two loops of _get_iocs_chunk are over
Collected == sys = "cti" /\ cti_pos[1] > Len(data)

\* C18 as stated: the record stream has one record per IOC value of every
\* generic field that is a key of the mapping, in field and value order, and
\* none for a field that is not a key.
C18_RecordPerMappedKey ==
    Collected => result = RecordStream(data, mapping, DOMAIN mapping)

\* C18: the record stream has one record per IOC value of every generic field
\* the mapping gives a non-empty platform field for, in field and value order,
\* and none for a field that is not a key or is mapped to the empty string.
C18_RecordPerMappedField ==
    Collected => result = RecordStream(data, mapping,
                                       {g \in DOMAIN mapping : mapping[g] # ""})

\* ip is mapped to the empty string and has two values, domain is mapped to
\* dst and has two: the stream is the two domain records
C18_Witness ==
    /\ cti_pc = "returned"
    /\ data = << <<"ip", <<"x", "y">> >>, <<"domain", <<"y", "x">> >> >>
    /\ mapping = [g \in GenericFields |-> IF g = "ip" THEN "" ELSE "dst"]
    /\ result = << IocsChunkValue("domain", "dst", "y"), IocsChunkValue("domain", "dst", "x") >>


(***************************************************************************)
(* MetaInfoContainer (core/models/parser_output.py).  A Python value is    *)
(* None, a str, a list or a dict; the constructor's keyword arguments are  *)
(* a record of such values, None for an argument not passed.               *)
(***************************************************************************)
MaxSupplied == 2

None == [t |-> "None"]
Str(s) == [t |-> "str", s |-> s]
List(l) == [t |-> "list", l |-> l]
Dict(d) == [t |-> "dict", d |-> d]

\* bool(value)
Truthy(v) ==
    CASE v.t = "None" -> FALSE
      [] v.t = "str" -> v.s # ""
      [] v.t = "list" -> v.l # <<>>
      [] v.t = "dict" -> v.d # EmptyDict

\* `value or default` with a default that is not None
OrDefault_unless_none(value, default) == IF value # None THEN value ELSE default

\* value or default
OrDefault(value, default) == IF Truthy(value) THEN value ELSE default

\* SeverityType: its members, and the value of SeverityType.low
SeverityTypes == {"informational", "low", "medium", "high", "critical"}
SeverityLow == "low"

\* DEFAULT_MAPPING_NAME
DEFAULT_MAPPING_NAME == "default"

\* what str(uuid.uuid4()) and datetime.now().date().strftime("%Y-%m-%d") give
Uuids == {"uuid-1", "uuid-2"}
Todays == {"2024-01-01", "2024-01-02"}

\* the keyword parameters of __init__, by the type of their values
StrArgs == {"id_", "title", "description", "author", "date", "license_", "severity", "status"}
ListArgs == {"references", "tags", "false_positives", "source_mapping_ids"}
DictArgs == {"mitre_attack"}
ArgNames == StrArgs \cup ListArgs \cup DictArgs

\* the values a caller passes for a parameter: empty ones, and for severity
\* one that is no member of SeverityType
ArgValues(a) ==
    CASE a = "severity" -> {Str(""), Str("high"), Str("urgent")}
      [] a = "date" -> {Str(""), Str("2020-02-02")}
      [] a \in StrArgs -> {Str(""), Str("x")}
      [] a \in ListArgs -> {List(<<>>), List(<<"a">>)}
      [] a \in DictArgs -> {Dict(EmptyDict), Dict(Put(EmptyDict, "execution", <<"t1">>))}

\* the calls that pass at most n of the parameters
RECURSIVE CallsPassing(_)
CallsPassing(n) ==
    IF n = 0 THEN {[a \in ArgNames |-> None]}
    ELSE LET P == CallsPassing(n - 1) IN
         P \cup UNION {{[p EXCEPT ![a] = v] : p \in P, v \in ArgValues(a)} : a \in ArgNames}

\* the body of __init__
meta_info_init(args, uuid4, today) ==
    [id |-> OrDefault(args.id_, Str(uuid4)),
     title |-> OrDefault(args.title, Str("")),
     description |-> OrDefault(args.description, Str("")),
     author |-> OrDefault(args.author, Str("")),
     date |-> OrDefault(args.date, Str(today)),
     license |-> OrDefault(args.license_, Str("DRL 1.1")),
     severity |-> OrDefault(args.severity, Str(SeverityLow)),
     references |-> OrDefault(args.references, List(<<>>)),
     tags |-> OrDefault(args.tags, List(<<>>)),
     mitre_attack |-> OrDefault(args.mitre_attack, Dict(EmptyDict)),
     status |-> OrDefault(args.status, Str("stable")),
     false_positives |-> OrDefault(args.false_positives, List(<<>>)),
     source_mapping_ids |-> OrDefault(args.source_mapping_ids, List(<<DEFAULT_MAPPING_NAME>>))]

MiFrame ==
    UNCHANGED <<sys, tok_vars, wc_vars, cti_vars, mitre_vars, mod_vars, fa_vars, sync_vars>>

InitMetaInfo ==
    /\ sys = "meta_info"
    /\ mi_args \in CallsPassing(MaxSupplied)
    /\ mi_self = <<>>
    /\ mi_pc = "call"
    /\ TokOff
    /\ WcOff
    /\ CtiOff
    /\ MitreOff
    /\ ModOff
    /\ FaOff
    /\ SyncOff

\* MetaInfoContainer(**mi_args)
Construct ==
    /\ sys = "meta_info"
    /\ mi_pc = "call"
    /\ \E uuid4 \in Uuids, today \in Todays : mi_self' = meta_info_init(mi_args, uuid4, today)
    /\ mi_pc' = "constructed"
    /\ UNCHANGED mi_args
    /\ MiFrame

NextMetaInfo == Construct

SpecMetaInfo == InitMetaInfo /\ [][NextMetaInfo]_vars

(***************************************************************************)
(* C19: the attributes of a MetaInfoContainer.                             *)
(***************************************************************************)
\* the attribute a keyword parameter is stored in
AttributeOf(a) ==
    CASE a = "id_" -> "id" [] a = "license_" -> "license" [] OTHER -> a

\* the default of a parameter is among these
Defaults(a) ==
    CASE a = "id_" -> {Str(u) : u \in Uuids}
      [] a = "date" -> {Str(d) : d \in Todays}
      [] a = "license_" -> {Str("DRL 1.1")}
      [] a = "severity" -> {Str("low")}
      [] a = "status" -> {Str("stable")}
      [] a = "source_mapping_ids" -> {List(<<DEFAULT_MAPPING_NAME>>)}
      [] a \in StrArgs -> {Str("")}
      [] a \in ListArgs -> {List(<<>>)}
      [] a \in DictArgs -> {Dict(EmptyDict)}

\* C19 as stated: no attribute of the object is unset, an argument not passed
\* gives its default, every argument passed is kept as it is, and severity is
\* a member of SeverityType.
C19_DefaultsAndSupplied ==
    mi_pc = "constructed" =>
        /\ \A a \in ArgNames :
               /\ mi_self[AttributeOf(a)] # None
               /\ mi_args[a] = None => mi_self[AttributeOf(a)] \in Defaults(a)
               /\ mi_args[a] # None => mi_self[AttributeOf(a)] = mi_args[a]
        /\ mi_self.severity \in {Str(s) : s \in SeverityTypes}

\* C19: no attribute of the object is unset; an argument that is not passed or
\* is passed empty gives its default, every non-empty argument passed is kept
\* as it is; severity is a member of SeverityType exactly when the severity
\* passed is absent, empty or a member.
C19_DefaultsAndNonEmpty ==
    mi_pc = "constructed" =>
        /\ \A a \in ArgNames :
               /\ mi_self[AttributeOf(a)] # None
               /\ ~Truthy(mi_args[a]) => mi_self[AttributeOf(a)] \in Defaults(a)
               /\ Truthy(mi_args[a]) => mi_self[AttributeOf(a)] = mi_args[a]
        /\ mi_self.severity \in {Str(s) : s \in SeverityTypes}
               <=> (~Truthy(mi_args.severity)
                       \/ mi_args.severity \in {Str(s) : s \in SeverityTypes})

\* a call that passed an empty license and the severity `urgent`
C19_Witness ==
    /\ mi_pc = "constructed"
    /\ mi_args.license_ = Str("")
    /\ mi_args.severity = Str("urgent")
    /\ mi_self.license = Str("DRL 1.1")
    /\ mi_self.severity = Str("urgent")
    /\ mi_self.id \in {Str(u) : u \in Uuids}


(***************************************************************************)
(* C20: the operator kept and the value returned by                        *)
(* process_value_wildcard_symbols.  A list is judged as the source judges  *)
(* it: its operator by its first element, its value element by element.    *)
(***************************************************************************)
\* value.startswith(wildcard_symbol) and value.endswith(wildcard_symbol)
Bracketed(s, wildcard) == StartsWith(s, <<wildcard>>) /\ EndsWith(s, <<wildcard>>)

\* neither value.startswith(wildcard_symbol) nor value.endswith(wildcard_symbol)
Bare(s, wildcard) == ~StartsWith(s, <<wildcard>>) /\ ~EndsWith(s, <<wildcard>>)

\* C20: with a wildcard symbol set, process_value_wildcard_symbols keeps
\* REGEX when the value is not wildcard-bracketed on both sides; keeps the
\* source operator and returns the value as it is when the value has no
\* leading and no trailing wildcard; and never returns a value with a leading
\* or trailing wildcard.
C20_RegexKeptBookendsStripped ==
    (wc_pc = "done" /\ wc_wildcard # "") =>
        /\ (wc_operator = "REGEX" /\ ~Bracketed(wc_value.items[1], wc_wildcard))
               => wc_out.op = "REGEX"
        /\ (\A i \in 1..Len(wc_value.items) : Bare(wc_value.items[i], wc_wildcard))
               => (wc_out.op = wc_operator /\ wc_out.value = wc_value)
        /\ wc_out.value.is_list = wc_value.is_list
        /\ Len(wc_out.value.items) = Len(wc_value.items)
        /\ \A i \in 1..Len(wc_out.value.items) : Bare(wc_out.value.items[i], wc_wildcard)

\* REGEX on `*a`: the operator stays REGEX and the value comes back as `a`
C20_Witness ==
    /\ wc_pc = "done"
    /\ wc_wildcard = "*"
    /\ wc_operator = "REGEX"
    /\ wc_value = ScalarValue(<<"*", "a">>)
    /\ wc_out = [value |-> ScalarValue(<<"a">>), op |-> "REGEX"]


(***************************************************************************)
(* get_field_tokens_from_func_args (core/tokenizer.py).  Field, Function   *)
(* and SortArg are records of what their constructors are given; the field *)
(* of a FieldValue is the Field of its source_name.                        *)
(***************************************************************************)
MaxNodes == 3

Field(source_name) == [kind |-> "Field", source_name |-> source_name]
SortArg(field) == [kind |-> "SortArg", field |-> field]
Function(args, by_clauses) == [kind |-> "Function", args |-> args, by_clauses |-> by_clauses]

\* arg.field of a FieldValue
field_of(field_value) == Field(field_value.source_name)

\* the arguments that are no Function
PlainArgs ==
    { Field(<<"a">>),
      FieldValue(<<"b">>, Identifier("EQ"), ScalarValue(<<"1">>)),
      SortArg(Field(<<"e">>)),
      Keyword(<<"u">>),
      Identifier("and") }

\* the arguments, and the argument lists, made of exactly n objects
RECURSIVE ArgsOfSize(_), ArgListsOfSize(_)
ArgsOfSize(n) ==
    (IF n = 1 THEN PlainArgs ELSE {})
    \cup UNION {{Function(a, b) : a \in ArgListsOfSize(i), b \in ArgListsOfSize(n - 1 - i)} :
                   i \in 0..(n - 1)}

ArgListsOfSize(n) ==
    IF n = 0 THEN {<<>>}
    ELSE UNION {{<<e>> \o l : e \in ArgsOfSize(k), l \in ArgListsOfSize(n - k)} : k \in 1..n}

\* get_field_tokens_from_func_args with by_clauses harvested before args
RECURSIVE get_field_tokens_from_func_args_by_first(_)
get_field_tokens_from_func_args_by_first(args) ==
    IF args = <<>> THEN <<>>
    ELSE LET arg == Head(args) IN
         (CASE arg.kind = "Field" -> <<arg>>
            [] arg.kind = "FieldValue" -> <<field_of(arg)>>
            [] arg.kind = "Function" ->
                   get_field_tokens_from_func_args_by_first(arg.by_clauses)
                       \o get_field_tokens_from_func_args_by_first(arg.args)
            [] arg.kind = "SortArg" -> <<arg.field>>
            [] OTHER -> <<>>)
         \o get_field_tokens_from_func_args_by_first(Tail(args))

\* get_field_tokens_from_func_args
RECURSIVE get_field_tokens_from_func_args(_)
get_field_tokens_from_func_args(args) ==
    IF args = <<>> THEN <<>>
    ELSE LET arg == Head(args) IN
         (CASE arg.kind = "Field" -> <<arg>>
            [] arg.kind = "FieldValue" -> <<field_of(arg)>>
            [] arg.kind = "Function" ->
                   get_field_tokens_from_func_args(arg.args)
                       \o get_field_tokens_from_func_args(arg.by_clauses)
            [] arg.kind = "SortArg" -> <<arg.field>>
            [] OTHER -> <<>>)
         \o get_field_tokens_from_func_args(Tail(args))

FaFrame ==
    UNCHANGED <<sys, tok_vars, wc_vars, cti_vars, mitre_vars, mod_vars, mi_vars, sync_vars>>

InitFuncArgs ==
    /\ sys = "func_args"
    /\ fa_args \in UNION {ArgListsOfSize(n) : n \in 0..MaxNodes}
    /\ fa_result = <<>>
    /\ fa_pc = "call"
    /\ TokOff
    /\ WcOff
    /\ CtiOff
    /\ MitreOff
    /\ ModOff
    /\ MiOff
    /\ SyncOff

\* self.get_field_tokens_from_func_args(args=fa_args)
GetFieldTokensFromFuncArgs ==
    /\ sys = "func_args"
    /\ fa_pc = "call"
    /\ fa_result' = get_field_tokens_from_func_args(fa_args)
    /\ fa_pc' = "returned"
    /\ UNCHANGED fa_args
    /\ FaFrame

NextFuncArgs == GetFieldTokensFromFuncArgs

SpecFuncArgs == InitFuncArgs /\ [][NextFuncArgs]_vars


(***************************************************************************)
(* C21: the Field references of an argument list, by position.  A position *)
(* is the path to an argument: its index in the list, then for an argument *)
(* inside a Function 1 for args or 2 for by_clauses and the position in    *)
(* that list.                                                              *)
(***************************************************************************)
\* the argument carries a Field reference of its own
BearsField(arg) == arg.kind \in {"Field", "FieldValue", "SortArg"}

\* the Field reference of such an argument
FieldReference(arg) ==
    CASE arg.kind = "Field" -> arg
      [] arg.kind = "FieldValue" -> field_of(arg)
      [] arg.kind = "SortArg" -> arg.field

\* the positions of the arguments of the list that carry a Field reference,
\* at any depth
RECURSIVE FieldPositions(_)
FieldPositions(args) ==
    UNION {IF BearsField(args[i]) THEN {<<i>>}
           ELSE IF args[i].kind = "Function"
           THEN {<<i, 1>> \o p : p \in FieldPositions(args[i].args)}
                \cup {<<i, 2>> \o p : p \in FieldPositions(args[i].by_clauses)}
           ELSE {} : i \in 1..Len(args)}

\* the argument at a position
RECURSIVE ArgAt(_, _)
ArgAt(args, p) ==
    IF Len(p) = 1 THEN args[p[1]]
    ELSE ArgAt(IF p[2] = 1 THEN args[p[1]].args ELSE args[p[1]].by_clauses,
               SubSeq(p, 3, Len(p)))

\* p comes before q depth-first, left to right, args before by_clauses
RECURSIVE Before(_, _)
Before(p, q) ==
    /\ p # <<>>
    /\ q # <<>>
    /\ \/ p[1] < q[1]
       \/ p[1] = q[1] /\ Before(Tail(p), Tail(q))

\* how many positions of S come before p
Rank(p, S) == Cardinality({q \in S : Before(q, p)})

\* C21: get_field_tokens_from_func_args returns exactly the Field references
\* of the arguments reachable from the list -- each Field, the field of each
\* FieldValue and SortArg, at any depth of Function args and by_clauses --
\* one per such argument, in depth-first left-to-right order with args
\* before by_clauses.
C21_FieldsDepthFirst ==
    fa_pc = "returned" =>
        LET S == FieldPositions(fa_args) IN
        /\ Len(fa_result) = Cardinality(S)
        /\ \A p \in S : fa_result[Rank(p, S) + 1] = FieldReference(ArgAt(fa_args, p))

\* a Function whose by_clauses has a Field and whose args has a SortArg: the
\* SortArg's field comes first
C21_Witness ==
    /\ fa_pc = "returned"
    /\ fa_args = <<Function(<<SortArg(Field(<<"e">>))>>, <<Field(<<"a">>)>>)>>
    /\ fa_result = <<Field(<<"e">>), Field(<<"a">>)>>


(***************************************************************************)
(* C22: tokenize as a loop that runs to its end.  The loop is the only     *)
(* thing its thread does, so a step that is possible is eventually taken.  *)
(***************************************************************************)
\* TokenizeStep can be taken exactly when the loop has a non-empty query: it
\* either raises or, by the first conjunct of C22_TokenizeTerminates, shortens
\* query, so it never stutters
TokenizeStepEnabled == sys = "tokenizer" /\ tok_pc = "loop" /\ query # <<>>

\* WF_vars(TokenizeStep), with ENABLED <<TokenizeStep>>_vars written as
\* TokenizeStepEnabled
TokenizeStepFair == []<>(~TokenizeStepEnabled) \/ []<><<TokenizeStep>>_vars

SpecTokenizerFair == SpecTokenizer /\ WF_vars(TokenizeReturn) /\ TokenizeStepFair

\* tokenize has returned or raised
TokenizeOver == tok_pc \in {"returned", "raised"}

\* C22: every _get_identifier step that does not raise leaves a query strictly
\* shorter than the one it was given; the tokens appended and the characters
\* left never exceed the length of the input; and tokenize returns or raises.
C22_TokenizeTerminates ==
    /\ [][(tok_pc = "loop" /\ query # <<>> /\ tok_pc' = "loop")
             => (Len(query') < Len(query) /\ Len(tokenized') = Len(tokenized) + 1)]_vars
    /\ [](sys = "tokenizer" => Len(tokenized) + Len(query) <= Len(tok_input))
    /\ <>TokenizeOver

\* `a=1 and a` has been tokenized in three steps
C22_Witness ==
    /\ tok_pc = "returned"
    /\ tok_input = <<"a", "=", "1", " ", "a", "n", "d", " ", "a">>
    /\ Len(tok_result) = 3
    /\ query = <<>>


(***************************************************************************)
(* C23: update_mitre_config when a pass over the bundle raises.            *)
(***************************************************************************)
\* C23: when update_mitre_config has fetched a bundle and raised while
\* processing it, tactics and techniques are what they were before the call.
C23_AllOrNothingOnError ==
    (upd[1].pc = "raised" /\ upd[1].fetch = "ok") =>
        /\ tactics = upd[1].pre.tactics
        /\ techniques = upd[1].pre.techniques


(***************************************************************************)
(* C24: the shape of the token sequences of `all` and `windash`.           *)
(***************************************************************************)
\* generate has returned for a stack that ends in all or in windash
GroupingCall ==
    /\ mod_pc = "returned"
    /\ mod_modifier # <<>>
    /\ mod_modifier[Len(mod_modifier)] \in {"all", "windash"}

IsLogicalOperator(token) ==
    token.kind = "Identifier" /\ token.token_type \in {"and", "or", "not"}

\* the R_PAREN that closes the L_PAREN at i, in a balanced sequence
ClosingOf(tokens, i) ==
    CHOOSE j \in (i + 1)..Len(tokens) :
        /\ Balanced(SubSeq(tokens, i, j))
        /\ \A k \in (i + 1)..(j - 1) : ~Balanced(SubSeq(tokens, i, k))

\* every parenthesised group holds a FieldValue
GroupsHoldFieldValue(tokens) ==
    \A i \in 1..Len(tokens) :
        IsParen(tokens[i], L_PAREN) =>
            \E k \in (i + 1)..(ClosingOf(tokens, i) - 1) : tokens[k].kind = "FieldValue"

\* the tokens that are not parentheses, in order
WithoutParens(tokens) ==
    SelectSeq(tokens, LAMBDA t : ~IsParen(t, L_PAREN) /\ ~IsParen(t, R_PAREN))

\* FieldValue, operator, FieldValue, ... with nothing else
Alternates(tokens) ==
    LET s == WithoutParens(tokens) IN
    \A k \in 1..Len(s) :
        IF k % 2 = 1 THEN s[k].kind = "FieldValue" ELSE IsLogicalOperator(s[k])

\* no logical operator first, last, right after L_PAREN or right before R_PAREN
NoOperatorAtEdge(tokens) ==
    /\ tokens # <<>> => ~IsLogicalOperator(tokens[1]) /\ ~IsLogicalOperator(tokens[Len(tokens)])
    /\ \A i \in 1..(Len(tokens) - 1) :
          /\ IsParen(tokens[i], L_PAREN) => ~IsLogicalOperator(tokens[i + 1])
          /\ IsParen(tokens[i + 1], R_PAREN) => ~IsLogicalOperator(tokens[i])

WellFormed(tokens) ==
    /\ Balanced(tokens)
    /\ GroupsHoldFieldValue(tokens)
    /\ Alternates(tokens)
    /\ NoOperatorAtEdge(tokens)

\* C24: every token sequence generate returns for a stack that ends in all or
\* in windash, on a string or on a list of any length, is well formed:
\* parentheses balance, every parenthesised group holds a FieldValue,
\* FieldValues and logical operators alternate, and no group or sequence
\* begins or ends with a logical operator.
C24_WellFormedGroups ==
    GroupingCall => WellFormed(mod_out.tokens)

\* every value other than the empty list gives a well-formed sequence
WellFormedOnNonEmptyValues ==
    (GroupingCall /\ ~(mod_value.is_list /\ mod_value.items = <<>>)) => WellFormed(mod_out.tokens)


(***************************************************************************)
(* C25: logical operators and the names that begin with their letters.     *)
(***************************************************************************)
\* the characters of a field name, a value or a keyword
WordChars == FieldChars \cup ValueChars

\* s begins with the word w and w ends there: no word character follows it
BeginsWithWholeWord(s, w) ==
    /\ StartsWith(s, w)
    /\ Len(s) > Len(w) => s[Len(w) + 1] \notin WordChars

\* C25: a loop step appends a logical-operator Identifier only when the
\* query, past its leading white space, begins with an operator word that is
\* not the beginning of a longer name; origin=1 and noted give one FieldValue
\* and one Keyword.
C25_WholeWordOnly ==
    [][ AppendedIdentifier(LogicalOperatorTypes) =>
          LET q == Drop(query, RunLen(query, WhiteSpace)) IN
          \E i \in 1..Len(logical_operator_words) :
              BeginsWithWholeWord(q, logical_operator_words[i])
      ]_vars


(***************************************************************************)
(* GitLabToGitHubSync.__get_gitlab_commits (sync.py).  A commit is its     *)
(* sha, a number; project.commits.get(sha) is project[sha], the commit's   *)
(* parent_ids and the name of the first branch of its refs().  Parents     *)
(* have smaller numbers than their children, so a history has no cycle.    *)
(***************************************************************************)
MaxCommits == 3
MaxParentCommits == 4

BranchNames == {"main", "dev"}

\* the parent_ids a commit c can have: none, one parent, or the two of a merge
ParentLists(c) ==
    {<<>>} \cup {<<a>> : a \in 1..(c - 1)}
           \cup {ab \in (1..(c - 1)) \X (1..(c - 1)) : ab[1] # ab[2]}

\* the histories of n commits
RECURSIVE Histories(_)
Histories(n) ==
    IF n = 0 THEN {<<>>}
    ELSE {Append(h, [parent_ids |-> ps, branch |-> b]) :
              h \in Histories(n - 1), ps \in ParentLists(n), b \in BranchNames}

\* __get_gitlab_branch_from_commit: the name of the first of commit.refs()
get_gitlab_branch_from_commit(commit) == project[commit].branch

\* list(reversed(l))
Reversed(l) == [i \in 1..Len(l) |-> l[Len(l) + 1 - i]]

SyncFrame == UNCHANGED <<sys, tok_vars, wc_vars, cti_vars, mitre_vars, mod_vars, mi_vars, fa_vars>>

\* run(commit_sha) is about to call __get_gitlab_commits: the project's
\* history, the commit asked for and the commits the index holds as saved
InitSync ==
    /\ sys = "sync"
    /\ project \in Histories(MaxCommits)
    /\ origin_commit \in 1..MaxCommits
    /\ saved_commits \in SUBSET (1..MaxCommits)
    /\ parent_ids = <<>>
    /\ parent_commits = <<>>
    /\ search_parent = FALSE
    /\ for_index = 0
    /\ sync_commits = <<>>
    /\ sync_pc = "call"
    /\ TokOff
    /\ WcOff
    /\ CtiOff
    /\ MitreOff
    /\ ModOff
    /\ MiOff
    /\ FaOff

\* the lines before the while: search_parent = True,
\* parent_ids = origin_commit.parent_ids, parent_commits = []
GetGitlabCommits ==
    /\ sys = "sync"
    /\ sync_pc = "call"
    /\ search_parent' = TRUE
    /\ parent_ids' = project[origin_commit].parent_ids
    /\ parent_commits' = <<>>
    /\ sync_pc' = "while"
    /\ UNCHANGED <<project, origin_commit, saved_commits, for_index, sync_commits>>
    /\ SyncFrame

\* while search_parent: begin the for loop at the first of parent_ids; when
\* search_parent is False, the lines after the loop: the parents reversed,
\* the origin commit appended, and the return
WhileSearchParent ==
    /\ sys = "sync"
    /\ sync_pc = "while"
    /\ IF search_parent
       THEN /\ for_index' = 1
            /\ sync_pc' = "for"
            /\ UNCHANGED sync_commits
       ELSE /\ sync_commits' = Append(Reversed(parent_commits), origin_commit)
            /\ sync_pc' = "returned"
            /\ UNCHANGED for_index
    /\ UNCHANGED <<project, origin_commit, saved_commits, parent_ids, parent_commits,
                   search_parent>>
    /\ SyncFrame

\* one turn of `for parent_commit_sha in parent_ids`: the list iterator goes
\* by index over the list as it is now, extensions included; past its end the
\* for loop is over and the while tests again
ForParentCommitSha ==
    /\ sys = "sync"
    /\ sync_pc = "for"
    /\ IF for_index > Len(parent_ids)
       THEN /\ sync_pc' = "while"
            /\ UNCHANGED <<parent_ids, parent_commits, search_parent, for_index>>
       ELSE LET parent_commit == parent_ids[for_index] IN
            IF /\ get_gitlab_branch_from_commit(origin_commit)
                      = get_gitlab_branch_from_commit(parent_commit)
               /\ parent_commit \notin saved_commits
            THEN /\ Len(parent_commits) < MaxParentCommits
                 /\ parent_commits' = Append(parent_commits, parent_commit)
                 /\ parent_ids' = parent_ids \o project[parent_commit].parent_ids
                 /\ for_index' = for_index + 1
                 /\ UNCHANGED <<search_parent, sync_pc>>
            ELSE /\ search_parent' = FALSE
                 /\ sync_pc' = "while"
                 /\ UNCHANGED <<parent_ids, parent_commits, for_index>>
    /\ UNCHANGED <<project, origin_commit, saved_commits, sync_commits>>
    /\ SyncFrame

NextSync == GetGitlabCommits \/ WhileSearchParent \/ ForParentCommitSha

SpecSync == InitSync /\ [][NextSync]_vars

\* the method is the only thing run() does before it pushes: a step that can
\* be taken is taken
SpecSyncFair == SpecSync /\ WF_vars(NextSync)

(***************************************************************************)
(* C26: the walk over the parents of the origin commit.                    *)
(***************************************************************************)
\* a is an ancestor of c in the project's history
RECURSIVE IsAncestor(_, _)
IsAncestor(a, c) ==
    \E i \in 1..Len(project[c].parent_ids) :
        LET p == project[c].parent_ids[i] IN p = a \/ IsAncestor(a, p)

\* the walk has collected as many commits as the model follows it for
WalkCutOff == sys = "sync" /\ Len(parent_commits) >= MaxParentCommits

\* C26: __get_gitlab_commits returns on every history, and the list it
\* returns holds no commit twice, no commit before one of its ancestors, and
\* the origin commit last.
C26_WalkTerminatesInOrder ==
    /\ <>(sys = "sync" => sync_pc = "returned" \/ WalkCutOff)
    /\ [](sync_pc = "returned" =>
            /\ \A i, j \in 1..Len(sync_commits) :
                  i < j => /\ sync_commits[i] # sync_commits[j]
                           /\ ~IsAncestor(sync_commits[j], sync_commits[i])
            /\ sync_commits[Len(sync_commits)] = origin_commit)

====
